---- MODULE Spec2Model ----
(***************************************************************************)
(* Kalas Random Chess: the Position Engine (class KalasRandomChess of      *)
(* public/game-logic.js) as a state machine.                               *)
(*                                                                         *)
(* Encoding of JavaScript values:                                          *)
(*   - a piece is its one-character tag ("K" ... "p"); null is Null;       *)
(*   - a cell index that is null (enPassantTarget) is NoCell, a timestamp  *)
(*     that is null is NoTime, lastMove null is NoLastMove;                *)
(*   - an array is a sequence, except the board, a function on 0..63;      *)
(*   - an absent (undefined) flag of an object literal is FALSE, an absent *)
(*     string field is Null.                                               *)
(***************************************************************************)
EXTENDS Integers, Sequences, FiniteSets, TLC

(* ------------------------------------------------------------------ *)
(* Bounds of the exploration                                           *)
(* ------------------------------------------------------------------ *)

\* seeds of the random stream explored by the placement specification
MaxSeed == 199

\* half-moves played after a position was installed by loadState
MaxPlies == 2

\* half-moves played after generateStartingPosition
MaxStartPlies == 1

\* seeds of the random stream whose placements give the boards of the move generators
MaxMoveSeed == 24

\* half-moves played from a position of pawn play
MaxPawnPlies == 2

\* half-moves played while the clocks are observed
MaxClockPlies == 1

\* steps of wall-clock time that pass while the clocks are observed
MaxTicks == 3

\* half-moves played in a game on which every operation is called
MaxOpsPlies == 1

\* half-moves played in a game that starts from a generated position
MaxPlayPlies == 2

\* half-moves played from a position in which every kind of piece can capture
MaxMaterialPlies == 1

\* moves pushed on one moveHistory array among the games that exchange a snapshot
MaxSharePlies == 2

\* games started against the AI on one page
MaxGames == 2

\* half-moves played in one game against the AI
MaxPagePlies == 2

\* steps by which Date.now() is seen to advance on the page
MaxPageTicks == 2

\* sockets that connect to the server
MaxSockets == 3

\* half-moves played in the game on the server
MaxServerPlies == 2

\* steps by which Date.now() is seen to advance on the server while no forfeit is pending
MaxServerTicks == 1


(* ------------------------------------------------------------------ *)
(* Pieces and coordinates                                              *)
(* ------------------------------------------------------------------ *)

Null == "null"
NoCell == -1
NoTime == -1

WHITE_KING == "K"
WHITE_QUEEN == "Q"
WHITE_ROOK == "R"
WHITE_BISHOP == "B"
WHITE_KNIGHT == "N"
WHITE_PAWN == "P"
BLACK_KING == "k"
BLACK_QUEEN == "q"
BLACK_ROOK == "r"
BLACK_BISHOP == "b"
BLACK_KNIGHT == "n"
BLACK_PAWN == "p"

WhitePieces == {"K", "Q", "R", "B", "N", "P"}
BlackPieces == {"k", "q", "r", "b", "n", "p"}

Cells == 0 .. 63

EmptyBoard == [i \in Cells |-> Null]

\* JavaScript's % keeps the sign of the dividend
JsRem(a, n) == IF a >= 0 THEN a % n ELSE -((-a) % n)

Abs(x) == IF x < 0 THEN -x ELSE x

Max(a, b) == IF a >= b THEN a ELSE b

getRow(index) == index \div 8

getCol(index) == JsRem(index, 8)

isWhitePiece(piece) == piece # Null /\ piece \in WhitePieces

isBlackPiece(piece) == piece # Null /\ piece \in BlackPieces

getPieceColor(piece) ==
    IF isWhitePiece(piece) THEN "white"
    ELSE IF isBlackPiece(piece) THEN "black"
    ELSE Null

\* piece.toLowerCase()
toLowerCase(piece) ==
    CASE piece \in {"K", "k"} -> "k"
      [] piece \in {"Q", "q"} -> "q"
      [] piece \in {"R", "r"} -> "r"
      [] piece \in {"B", "b"} -> "b"
      [] piece \in {"N", "n"} -> "n"
      [] piece \in {"P", "p"} -> "p"

Opponent(color) == IF color = "white" THEN "black" ELSE "white"

(* ------------------------------------------------------------------ *)
(* Move generation (a move candidate is {to, isCapture, isEnPassant,   *)
(* isDoublePush}); every generator returns its moves in code order     *)
(* ------------------------------------------------------------------ *)

Move(to, isCapture) ==
    [to |-> to, isCapture |-> isCapture, isEnPassant |-> FALSE, isDoublePush |-> FALSE]

StepMoveIndexOnly(b, color, row, col, off) ==
    LET toIndex == (row + off[1]) * 8 + col + off[2]
    IN IF toIndex >= 0 /\ toIndex < 64
       THEN IF b[toIndex] = Null THEN << Move(toIndex, FALSE) >>
            ELSE IF getPieceColor(b[toIndex]) # color THEN << Move(toIndex, TRUE) >>
            ELSE << >>
       ELSE << >>

StepMoveOntoOwn(b, color, row, col, off) ==
    LET newRow == row + off[1]
        newCol == col + off[2]
        toIndex == newRow * 8 + newCol
    IN IF newRow >= 0 /\ newRow < 8 /\ newCol >= 0 /\ newCol < 8
       THEN IF b[toIndex] = Null THEN << Move(toIndex, FALSE) >>
            ELSE << Move(toIndex, TRUE) >>
       ELSE << >>

\* the moves of one offset of getKnightMoves / getKingMoves
StepMove(b, color, row, col, off) ==
    LET newRow == row + off[1]
        newCol == col + off[2]
        toIndex == newRow * 8 + newCol
    IN IF newRow >= 0 /\ newRow < 8 /\ newCol >= 0 /\ newCol < 8
       THEN IF b[toIndex] = Null THEN << Move(toIndex, FALSE) >>
            ELSE IF getPieceColor(b[toIndex]) # color THEN << Move(toIndex, TRUE) >>
            ELSE << >>
       ELSE << >>

RECURSIVE StepMoves(_, _, _, _, _, _)
StepMoves(b, color, row, col, offsets, k) ==
    IF k > Len(offsets) THEN << >>
    ELSE StepMove(b, color, row, col, offsets[k])
         \o StepMoves(b, color, row, col, offsets, k + 1)

KnightOffsets ==
    << <<-2, -1>>, <<-2, 1>>, <<-1, -2>>, <<-1, 2>>,
       <<1, -2>>, <<1, 2>>, <<2, -1>>, <<2, 1>> >>

KingOffsets ==
    << <<-1, -1>>, <<-1, 0>>, <<-1, 1>>,
       <<0, -1>>, <<0, 1>>,
       <<1, -1>>, <<1, 0>>, <<1, 1>> >>

getKnightMoves(b, fromIndex, color) ==
    StepMoves(b, color, getRow(fromIndex), getCol(fromIndex), KnightOffsets, 1)

getKingMoves(b, fromIndex, color) ==
    StepMoves(b, color, getRow(fromIndex), getCol(fromIndex), KingOffsets, 1)

\* the while loop of getSlidingMoves along one direction
RECURSIVE Ray(_, _, _, _, _, _)
Ray(b, color, currentRow, currentCol, rowDir, colDir) ==
    IF currentRow >= 0 /\ currentRow < 8 /\ currentCol >= 0 /\ currentCol < 8
    THEN LET toIndex == currentRow * 8 + currentCol
         IN IF b[toIndex] = Null
            THEN << Move(toIndex, FALSE) >>
                 \o Ray(b, color, currentRow + rowDir, currentCol + colDir, rowDir, colDir)
            ELSE IF getPieceColor(b[toIndex]) # color
                 THEN << Move(toIndex, TRUE) >>
                 ELSE << >>
    ELSE << >>

RECURSIVE Rays(_, _, _, _, _, _)
Rays(b, color, row, col, directions, k) ==
    IF k > Len(directions) THEN << >>
    ELSE Ray(b, color, row + directions[k][1], col + directions[k][2],
             directions[k][1], directions[k][2])
         \o Rays(b, color, row, col, directions, k + 1)

getSlidingMoves(b, fromIndex, color, directions) ==
    Rays(b, color, getRow(fromIndex), getCol(fromIndex), directions, 1)

BishopDirections == << <<-1, -1>>, <<-1, 1>>, <<1, -1>>, <<1, 1>> >>

RookDirections == << <<-1, 0>>, <<1, 0>>, <<0, -1>>, <<0, 1>> >>

QueenDirections ==
    << <<-1, -1>>, <<-1, 0>>, <<-1, 1>>,
       <<0, -1>>, <<0, 1>>,
       <<1, -1>>, <<1, 0>>, <<1, 1>> >>

getBishopMoves(b, fromIndex, color) == getSlidingMoves(b, fromIndex, color, BishopDirections)

getRookMoves(b, fromIndex, color) == getSlidingMoves(b, fromIndex, color, RookDirections)

getQueenMoves(b, fromIndex, color) == getSlidingMoves(b, fromIndex, color, QueenDirections)

\* one offset of the diagonal captures of getPawnMoves
PawnCaptureNoWrapCheck(b, fromIndex, color, offset) ==
    LET direction == IF color = "white" THEN 1 ELSE -1
        captureIndex == fromIndex + (offset * direction)
    IN IF captureIndex >= 0 /\ captureIndex < 64
       THEN IF b[captureIndex] # Null /\ getPieceColor(b[captureIndex]) # color
            THEN << Move(captureIndex, TRUE) >>
            ELSE << >>
       ELSE << >>

\* one offset of the "diagonal captures" loop of getPawnMoves
PawnCapture(b, fromIndex, color, offset) ==
    LET direction == IF color = "white" THEN 1 ELSE -1
        captureIndex == fromIndex + (offset * direction)
        captureCol == getCol(captureIndex)
    IN IF Abs(captureCol - getCol(fromIndex)) = 1 /\ captureIndex >= 0 /\ captureIndex < 64
       THEN IF b[captureIndex] # Null /\ getPieceColor(b[captureIndex]) # color
            THEN << Move(captureIndex, TRUE) >>
            ELSE << >>
       ELSE << >>

getPawnMoves(b, enPassantTarget, fromIndex, color) ==
    LET row == getRow(fromIndex)
        col == getCol(fromIndex)
        direction == IF color = "white" THEN 1 ELSE -1
        startRow == IF color = "white" THEN 1 ELSE 6
        forwardOne == fromIndex + (8 * direction)
        forwardTwo == fromIndex + (16 * direction)
        forward ==
            IF forwardOne >= 0 /\ forwardOne < 64 /\ b[forwardOne] = Null
            THEN << Move(forwardOne, FALSE) >>
                 \o (IF row = startRow /\ forwardTwo >= 0 /\ forwardTwo < 64
                        /\ b[forwardTwo] = Null
                     THEN << [Move(forwardTwo, FALSE) EXCEPT !.isDoublePush = TRUE] >>
                     ELSE << >>)
            ELSE << >>
        epRow == IF color = "white" THEN 4 ELSE 3
        enPassant ==
            IF enPassantTarget # NoCell
               /\ row = epRow /\ Abs(col - getCol(enPassantTarget)) = 1
            THEN << [Move(enPassantTarget, TRUE) EXCEPT !.isEnPassant = TRUE] >>
            ELSE << >>
    IN forward \o PawnCapture(b, fromIndex, color, 7) \o PawnCapture(b, fromIndex, color, 9)
       \o enPassant

PawnAttackNoWrapCheck(fromIndex, color, offset) ==
    LET direction == IF color = "white" THEN 1 ELSE -1
        attackIndex == fromIndex + (offset * direction)
    IN IF attackIndex >= 0 /\ attackIndex < 64 THEN {attackIndex} ELSE {}

\* one offset of getPawnAttacks
PawnAttack(fromIndex, color, offset) ==
    LET direction == IF color = "white" THEN 1 ELSE -1
        attackIndex == fromIndex + (offset * direction)
    IN IF Abs(getCol(attackIndex) - getCol(fromIndex)) = 1
          /\ attackIndex >= 0 /\ attackIndex < 64
       THEN {attackIndex}
       ELSE {}

getPawnAttacks(fromIndex, color) ==
    PawnAttack(fromIndex, color, 7) \cup PawnAttack(fromIndex, color, 9)

\* moves.map(m => m.to), as the set that attacks.includes() tests
Targets(moves) == {moves[k].to : k \in 1 .. Len(moves)}

areCapturesAllowedFrom3(turnCount) == turnCount >= 3

areCapturesAllowed(turnCount) == turnCount >= 4

\* moves.filter(move => !move.isCapture)
NoCaptures(moves) == SelectSeq(moves, LAMBDA m : ~m.isCapture)

\* the switch of getValidMoves
GeneratedMoves(g, fromIndex) ==
    LET piece == g.board[fromIndex]
        pieceColor == getPieceColor(piece)
        pieceType == toLowerCase(piece)
    IN CASE pieceType = "p" -> getPawnMoves(g.board, g.enPassantTarget, fromIndex, pieceColor)
         [] pieceType = "n" -> getKnightMoves(g.board, fromIndex, pieceColor)
         [] pieceType = "b" -> getBishopMoves(g.board, fromIndex, pieceColor)
         [] pieceType = "r" -> getRookMoves(g.board, fromIndex, pieceColor)
         [] pieceType = "q" -> getQueenMoves(g.board, fromIndex, pieceColor)
         [] pieceType = "k" -> getKingMoves(g.board, fromIndex, pieceColor)

getValidMovesAnyColor(g, fromIndex) ==
    IF g.board[fromIndex] = Null THEN << >>
    ELSE IF ~areCapturesAllowed(g.turnCount) THEN NoCaptures(GeneratedMoves(g, fromIndex))
    ELSE GeneratedMoves(g, fromIndex)

getValidMoves(g, fromIndex) ==
    IF g.board[fromIndex] = Null THEN << >>
    ELSE IF getPieceColor(g.board[fromIndex]) # g.currentTurn THEN << >>
    ELSE IF ~areCapturesAllowed(g.turnCount) THEN NoCaptures(GeneratedMoves(g, fromIndex))
    ELSE GeneratedMoves(g, fromIndex)

\* board.findIndex(p => p === kingPiece): the first such cell, -1 when there is none
findKing(b, color) ==
    LET kingPiece == IF color = "white" THEN WHITE_KING ELSE BLACK_KING
        at == {i \in Cells : b[i] = kingPiece}
    IN IF at = {} THEN -1 ELSE CHOOSE i \in at : \A j \in at : i <= j

AttacksNoKing(b, i, byColor) ==
    LET pieceType == toLowerCase(b[i])
    IN CASE pieceType = "p" -> getPawnAttacks(i, byColor)
         [] pieceType = "n" -> Targets(getKnightMoves(b, i, byColor))
         [] pieceType = "b" -> Targets(getBishopMoves(b, i, byColor))
         [] pieceType = "r" -> Targets(getRookMoves(b, i, byColor))
         [] pieceType = "q" -> Targets(getQueenMoves(b, i, byColor))
         [] pieceType = "k" -> {}

\* the cells attacked by the piece on cell i
Attacks(b, i, byColor) ==
    LET pieceType == toLowerCase(b[i])
    IN CASE pieceType = "p" -> getPawnAttacks(i, byColor)
         [] pieceType = "n" -> Targets(getKnightMoves(b, i, byColor))
         [] pieceType = "b" -> Targets(getBishopMoves(b, i, byColor))
         [] pieceType = "r" -> Targets(getRookMoves(b, i, byColor))
         [] pieceType = "q" -> Targets(getQueenMoves(b, i, byColor))
         [] pieceType = "k" -> Targets(getKingMoves(b, i, byColor))

isSquareAttacked(b, squareIndex, byColor) ==
    \E i \in Cells :
        /\ b[i] # Null
        /\ getPieceColor(b[i]) = byColor
        /\ squareIndex \in Attacks(b, i, byColor)

isInCheck(b, color) ==
    LET kingIndex == findKing(b, color)
    IN IF kingIndex = -1 THEN FALSE
       ELSE isSquareAttacked(b, kingIndex, Opponent(color))

hasValidMoves(g, color) ==
    \E i \in Cells :
        /\ g.board[i] # Null
        /\ getPieceColor(g.board[i]) = color
        /\ Len(getValidMoves(g, i)) > 0

(* ------------------------------------------------------------------ *)
(* The Game object                                                     *)
(* ------------------------------------------------------------------ *)

NoLastMove == [from |-> NoCell, to |-> NoCell]

NoRecord ==
    [from |-> NoCell, to |-> NoCell, piece |-> Null, captured |-> Null, moveNumber |-> 0,
     isEnPassant |-> FALSE, promotion |-> Null]

NoStatus == [gameOver |-> FALSE, result |-> Null, winner |-> Null, inCheck |-> FALSE]

\* new KalasRandomChess(timeControl)
NewGame(timeControl) ==
    [board |-> EmptyBoard,
     currentTurn |-> "white",
     moveNumber |-> 1,
     turnCount |-> 1,
     gameOver |-> FALSE,
     winner |-> Null,
     lastMove |-> NoLastMove,
     moveHistory |-> << >>,
     enPassantTarget |-> NoCell,
     timeControl |-> timeControl,
     whiteTime |-> timeControl * 60 * 1000,
     blackTime |-> timeControl * 60 * 1000,
     lastTimestamp |-> NoTime,
     timerRunning |-> FALSE]

isUntimed(g) == g.timeControl = 0

updateTimeNoFloor(g, t) ==
    IF isUntimed(g) THEN g
    ELSE IF ~g.timerRunning \/ g.lastTimestamp = NoTime \/ g.lastTimestamp = 0 THEN g
    ELSE LET elapsed == t - g.lastTimestamp
         IN IF g.currentTurn = "white"
            THEN [g EXCEPT !.lastTimestamp = t, !.whiteTime = g.whiteTime - elapsed]
            ELSE [g EXCEPT !.lastTimestamp = t, !.blackTime = g.blackTime - elapsed]

\* updateTime() when Date.now() returns t
updateTime(g, t) ==
    IF isUntimed(g) THEN g
    ELSE IF ~g.timerRunning \/ g.lastTimestamp = NoTime \/ g.lastTimestamp = 0 THEN g
    ELSE LET elapsed == t - g.lastTimestamp
         IN IF g.currentTurn = "white"
            THEN [g EXCEPT !.lastTimestamp = t, !.whiteTime = Max(0, g.whiteTime - elapsed)]
            ELSE [g EXCEPT !.lastTimestamp = t, !.blackTime = Max(0, g.blackTime - elapsed)]

\* "the player who just moved left their own king in check" (g.currentTurn is the
\* other player by now)
LeftInCheckWrongSide(g) == isInCheck(g.board, g.currentTurn)

LeftInCheck(g) == isInCheck(g.board, Opponent(g.currentTurn))

\* the branch of checkGameStatus for a side to move without a move
NoMovesStatusAlwaysMate(g, inCheck) ==
    [game |-> [g EXCEPT !.gameOver = TRUE, !.winner = Opponent(g.currentTurn)],
     status |-> [gameOver |-> TRUE, result |-> "checkmate",
                 winner |-> Opponent(g.currentTurn), inCheck |-> FALSE]]

NoMovesStatus(g, inCheck) ==
    IF inCheck
    THEN [game |-> [g EXCEPT !.gameOver = TRUE, !.winner = Opponent(g.currentTurn)],
          status |-> [gameOver |-> TRUE, result |-> "checkmate",
                      winner |-> Opponent(g.currentTurn), inCheck |-> FALSE]]
    ELSE [game |-> [g EXCEPT !.gameOver = TRUE],
          status |-> [gameOver |-> TRUE, result |-> "stalemate",
                      winner |-> Null, inCheck |-> FALSE]]

\* checkGameStatus(): the game after it and the status object it returns
checkGameStatus(g) ==
    LET currentColor == g.currentTurn
        inCheck == isInCheck(g.board, currentColor)
        hasMoves == hasValidMoves(g, currentColor)
    IN IF LeftInCheck(g)
       THEN [game |-> [g EXCEPT !.gameOver = TRUE, !.winner = currentColor],
             status |-> [gameOver |-> TRUE, result |-> "left-in-check",
                         winner |-> currentColor, inCheck |-> FALSE]]
       ELSE IF ~hasMoves THEN NoMovesStatus(g, inCheck)
       ELSE IF inCheck
       THEN [game |-> g, status |-> [NoStatus EXCEPT !.inCheck = TRUE]]
       ELSE [game |-> g, status |-> NoStatus]

\* validMoves.find(m => m.to === toIndex): the matching moves, first one first
FindMove(validMoves, toIndex) == SelectSeq(validMoves, LAMBDA m : m.to = toIndex)

Failure(error) ==
    [success |-> FALSE, error |-> error, move |-> NoRecord, gameStatus |-> NoStatus]

MovedBoardNoRemoval(b, fromIndex, toIndex, move) ==
    LET piece == b[fromIndex]
        pieceColor == getPieceColor(piece)
        b2 == [b EXCEPT ![toIndex] = piece, ![fromIndex] = Null]
    IN IF (piece = WHITE_PAWN /\ getRow(toIndex) = 7)
          \/ (piece = BLACK_PAWN /\ getRow(toIndex) = 0)
       THEN [b2 EXCEPT ![toIndex] = IF pieceColor = "white" THEN WHITE_QUEEN
                                    ELSE BLACK_QUEEN]
       ELSE b2

MovedBoardWhitePromotes(b, fromIndex, toIndex, move) ==
    LET piece == b[fromIndex]
        pieceColor == getPieceColor(piece)
        capturedPawnIndex == toIndex + (IF pieceColor = "white" THEN -8 ELSE 8)
        b1 == IF move.isEnPassant THEN [b EXCEPT ![capturedPawnIndex] = Null] ELSE b
        b2 == [b1 EXCEPT ![toIndex] = piece, ![fromIndex] = Null]
    IN IF piece = WHITE_PAWN /\ getRow(toIndex) = 7
       THEN [b2 EXCEPT ![toIndex] = WHITE_QUEEN]
       ELSE b2

\* the board after "handle en passant capture", "execute the move" and the promotion
MovedBoard(b, fromIndex, toIndex, move) ==
    LET piece == b[fromIndex]
        pieceColor == getPieceColor(piece)
        capturedPawnIndex == toIndex + (IF pieceColor = "white" THEN -8 ELSE 8)
        b1 == IF move.isEnPassant THEN [b EXCEPT ![capturedPawnIndex] = Null] ELSE b
        b2 == [b1 EXCEPT ![toIndex] = piece, ![fromIndex] = Null]
    IN IF (piece = WHITE_PAWN /\ getRow(toIndex) = 7)
          \/ (piece = BLACK_PAWN /\ getRow(toIndex) = 0)
       THEN [b2 EXCEPT ![toIndex] = IF pieceColor = "white" THEN WHITE_QUEEN
                                    ELSE BLACK_QUEEN]
       ELSE b2

MoveRecordTurnCount(g, fromIndex, toIndex, move) ==
    LET piece == g.board[fromIndex]
        pieceColor == getPieceColor(piece)
        capturedPawnIndex == toIndex + (IF pieceColor = "white" THEN -8 ELSE 8)
    IN [from |-> fromIndex,
        to |-> toIndex,
        piece |-> piece,
        captured |-> IF move.isEnPassant THEN g.board[capturedPawnIndex]
                     ELSE g.board[toIndex],
        moveNumber |-> g.turnCount,
        isEnPassant |-> move.isEnPassant,
        promotion |-> IF (piece = WHITE_PAWN /\ getRow(toIndex) = 7)
                         \/ (piece = BLACK_PAWN /\ getRow(toIndex) = 0)
                      THEN MovedBoard(g.board, fromIndex, toIndex, move)[toIndex]
                      ELSE Null]

\* the object pushed on moveHistory
MoveRecord(g, fromIndex, toIndex, move) ==
    LET piece == g.board[fromIndex]
        pieceColor == getPieceColor(piece)
        capturedPawnIndex == toIndex + (IF pieceColor = "white" THEN -8 ELSE 8)
    IN [from |-> fromIndex,
        to |-> toIndex,
        piece |-> piece,
        captured |-> IF move.isEnPassant THEN g.board[capturedPawnIndex]
                     ELSE g.board[toIndex],
        moveNumber |-> g.moveNumber,
        isEnPassant |-> move.isEnPassant,
        promotion |-> IF (piece = WHITE_PAWN /\ getRow(toIndex) = 7)
                         \/ (piece = BLACK_PAWN /\ getRow(toIndex) = 0)
                      THEN MovedBoard(g.board, fromIndex, toIndex, move)[toIndex]
                      ELSE Null]

SwitchTurnCountsWhite(g) ==
    [g EXCEPT !.moveNumber = IF g.currentTurn = "white" THEN g.moveNumber + 1
                             ELSE g.moveNumber,
              !.turnCount = g.turnCount + 1,
              !.currentTurn = Opponent(g.currentTurn)]

\* "switch turn and increment counters"
SwitchTurn(g) ==
    [g EXCEPT !.moveNumber = IF g.currentTurn = "black" THEN g.moveNumber + 1
                             ELSE g.moveNumber,
              !.turnCount = g.turnCount + 1,
              !.currentTurn = Opponent(g.currentTurn)]

SwitchThenCharge(g, t) == updateTime(SwitchTurn(g), t)

\* "update the timer for the player who just moved BEFORE switching turns", then the switch
ChargeAndSwitch(g, t) == SwitchTurn(updateTime(g, t))

RejectionNoTurnCheck(g, fromIndex, toIndex) ==
    IF g.board[fromIndex] = Null THEN "No piece at source"
    ELSE IF Len(FindMove(getValidMoves(g, fromIndex), toIndex)) = 0 THEN "Invalid move"
    ELSE Null

\* the checks makeMove makes before it touches the game: Null when the move is accepted,
\* the error it returns otherwise
Rejection(g, fromIndex, toIndex) ==
    IF g.board[fromIndex] = Null THEN "No piece at source"
    ELSE IF getPieceColor(g.board[fromIndex]) # g.currentTurn THEN "Not your turn"
    ELSE IF Len(FindMove(getValidMoves(g, fromIndex), toIndex)) = 0 THEN "Invalid move"
    ELSE Null

\* makeMove(fromIndex, toIndex) when Date.now() returns t: the game after it and the
\* object it returns
makeMove(g, fromIndex, toIndex, t) ==
    LET error == Rejection(g, fromIndex, toIndex)
    IN IF error # Null THEN [game |-> g, ret |-> Failure(error)]
       ELSE
       LET move == FindMove(getValidMoves(g, fromIndex), toIndex)[1]
           pieceColor == getPieceColor(g.board[fromIndex])
           moveRecord == MoveRecord(g, fromIndex, toIndex, move)
           g1 == [g EXCEPT
                    !.board = MovedBoard(g.board, fromIndex, toIndex, move),
                    !.enPassantTarget =
                        IF move.isDoublePush
                        THEN fromIndex + (8 * (IF pieceColor = "white" THEN 1 ELSE -1))
                        ELSE NoCell,
                    !.lastMove = [from |-> fromIndex, to |-> toIndex],
                    !.moveHistory = Append(g.moveHistory, moveRecord)]
           g2 == ChargeAndSwitch(g1, t)
           g3 == [g2 EXCEPT !.lastTimestamp = t]
           checked == checkGameStatus(g3)
       IN [game |-> checked.game,
           ret |-> [success |-> TRUE, error |-> Null, move |-> moveRecord,
                    gameStatus |-> checked.status]]

resignWinnerSelf(g, color) ==
    [game |-> [g EXCEPT !.gameOver = TRUE, !.winner = color, !.timerRunning = FALSE],
     status |-> [gameOver |-> TRUE, result |-> "resignation", winner |-> color,
                 inCheck |-> FALSE]]

\* resign(color): the game after it and the object it returns
resign(g, color) ==
    [game |-> [g EXCEPT !.gameOver = TRUE, !.winner = Opponent(color),
                        !.timerRunning = FALSE],
     status |-> [gameOver |-> TRUE, result |-> "resignation", winner |-> Opponent(color),
                 inCheck |-> FALSE]]

startTimerAlways(g, t) == [g EXCEPT !.lastTimestamp = t, !.timerRunning = TRUE]

\* startTimer() when Date.now() returns t
startTimer(g, t) ==
    IF isUntimed(g) THEN g
    ELSE [g EXCEPT !.lastTimestamp = t, !.timerRunning = TRUE]

\* stopTimer() when Date.now() returns t
stopTimer(g, t) ==
    IF g.timerRunning THEN [updateTime(g, t) EXCEPT !.timerRunning = FALSE]
    ELSE g

TimeoutStatus(winner) ==
    [gameOver |-> TRUE, result |-> "timeout", winner |-> winner, inCheck |-> FALSE]

checkTimeoutNoUpdate(g, t) ==
    IF isUntimed(g) THEN [game |-> g, status |-> NoStatus]
    ELSE IF g.whiteTime <= 0
         THEN [game |-> [g EXCEPT !.gameOver = TRUE, !.winner = "black",
                                  !.timerRunning = FALSE],
               status |-> TimeoutStatus("black")]
         ELSE IF g.blackTime <= 0
              THEN [game |-> [g EXCEPT !.gameOver = TRUE, !.winner = "white",
                                       !.timerRunning = FALSE],
                    status |-> TimeoutStatus("white")]
              ELSE [game |-> g, status |-> NoStatus]

\* checkTimeout() when Date.now() returns t: the game after it and the object it returns
\* (NoStatus for null)
checkTimeout(g, t) ==
    IF isUntimed(g) THEN [game |-> g, status |-> NoStatus]
    ELSE LET u == updateTime(g, t)
         IN IF u.whiteTime <= 0
            THEN [game |-> [u EXCEPT !.gameOver = TRUE, !.winner = "black",
                                     !.timerRunning = FALSE],
                  status |-> TimeoutStatus("black")]
            ELSE IF u.blackTime <= 0
                 THEN [game |-> [u EXCEPT !.gameOver = TRUE, !.winner = "white",
                                          !.timerRunning = FALSE],
                       status |-> TimeoutStatus("white")]
                 ELSE [game |-> u, status |-> NoStatus]

\* getTimeRemaining(color) when Date.now() returns t: the game after it and the number
\* of milliseconds it returns
getTimeRemaining(g, color, t) ==
    LET u == updateTime(g, t)
    IN [game |-> u, ms |-> IF color = "white" THEN u.whiteTime ELSE u.blackTime]

(* ------------------------------------------------------------------ *)
(* generateStartingPosition                                            *)
(* ------------------------------------------------------------------ *)

\* Math.random() is a stream fixed by its seed: a call takes the stream from x to
\* NextRand(x) and returns NextRand(x) / RandMod
RandMod == 65536

NextRand(x) == (x * 25173 + 13849) % RandMod

\* [lo, lo + 1, ..., hi], as the zone loops push it
Range(lo, hi) == [k \in 1 .. (hi - lo + 1) |-> lo + k - 1]

\* arr.filter(i => i !== v)
Without(arr, v) == SelectSeq(arr, LAMBDA i : i # v)

\* arr.filter(idx => this.board[idx] === null)
OnlyEmpty(arr, b) == SelectSeq(arr, LAMBDA idx : b[idx] = Null)

\* Math.floor(Math.random() * arr.length), for the random value x / RandMod
RandomIndex(x, length) == (x * length) \div RandMod

\* pickRandom(arr): the element returned (NoCell for the undefined that an empty array
\* gives) and the array as splice leaves it
pickRandom(arr, x) ==
    LET index == RandomIndex(x, Len(arr))
    IN IF Len(arr) = 0 THEN [pos |-> NoCell, rest |-> arr]
       ELSE [pos |-> arr[index + 1],
             rest |-> SubSeq(arr, 1, index) \o SubSeq(arr, index + 2, Len(arr))]

whitePieces ==
    << WHITE_QUEEN, WHITE_ROOK, WHITE_ROOK, WHITE_BISHOP, WHITE_BISHOP,
       WHITE_KNIGHT, WHITE_KNIGHT >>

blackPieces ==
    << BLACK_QUEEN, BLACK_ROOK, BLACK_ROOK, BLACK_BISHOP, BLACK_BISHOP,
       BLACK_KNIGHT, BLACK_KNIGHT >>

GenEntryWidePieceZones ==
    [pc |-> "whiteKing",
     i |-> 0,
     board |-> EmptyBoard,
     whiteKingZone |-> Range(0, 7),
     whitePawnZone |-> Range(8, 31),
     whitePieceZone |-> Range(0, 31),
     blackKingZone |-> Range(56, 63),
     blackPawnZone |-> Range(24, 55),
     blackPieceZone |-> Range(32, 63),
     overwrote |-> FALSE,
     pickedFromEmpty |-> FALSE]

\* the locals of generateStartingPosition on entry, after the board was cleared and the
\* zones were filled; overwrote and pickedFromEmpty record what the placements did
GenEntry ==
    [pc |-> "whiteKing",
     i |-> 0,
     board |-> EmptyBoard,
     whiteKingZone |-> Range(0, 7),
     whitePawnZone |-> Range(8, 31),
     whitePieceZone |-> Range(0, 23),
     blackKingZone |-> Range(56, 63),
     blackPawnZone |-> Range(24, 55),
     blackPieceZone |-> Range(40, 63),
     overwrote |-> FALSE,
     pickedFromEmpty |-> FALSE]

\* this.board[pos] = piece (for pos undefined the assignment sets no cell)
Place(l, pos, piece) ==
    [l EXCEPT !.board = IF pos = NoCell THEN l.board ELSE [l.board EXCEPT ![pos] = piece],
              !.overwrote = l.overwrote \/ (pos # NoCell /\ l.board[pos] # Null),
              !.pickedFromEmpty = l.pickedFromEmpty \/ pos = NoCell]

\* "Place White King"
GenWhiteKing(l, x) ==
    LET pick == pickRandom(l.whiteKingZone, x)
    IN [Place(l, pick.pos, WHITE_KING) EXCEPT
          !.whiteKingZone = pick.rest,
          !.whitePieceZone = Without(l.whitePieceZone, pick.pos),
          !.pc = "whitePawns",
          !.i = 0]

\* one iteration of "Place White Pawns"; the piece zone is filtered to its empty cells
\* when the loop is left
GenWhitePawn(l, x) ==
    LET pick == pickRandom(l.whitePawnZone, x)
        placed == Place(l, pick.pos, WHITE_PAWN)
        zone == Without(l.whitePieceZone, pick.pos)
    IN IF l.i + 1 < 8
       THEN [placed EXCEPT !.whitePawnZone = pick.rest, !.whitePieceZone = zone,
                           !.i = l.i + 1]
       ELSE [placed EXCEPT !.whitePawnZone = pick.rest,
                           !.whitePieceZone = OnlyEmpty(zone, placed.board),
                           !.pc = "whitePieces", !.i = 0]

\* one iteration of "Place White Pieces"
GenWhitePiece(l, x) ==
    LET pick == pickRandom(l.whitePieceZone, x)
        placed == Place(l, pick.pos, whitePieces[l.i + 1])
    IN [placed EXCEPT !.whitePieceZone = pick.rest,
                      !.i = IF l.i + 1 < Len(whitePieces) THEN l.i + 1 ELSE 0,
                      !.pc = IF l.i + 1 < Len(whitePieces) THEN "whitePieces"
                             ELSE "blackKing"]

GenBlackKingNoFilter(l, x) ==
    LET pick == pickRandom(l.blackKingZone, x)
        placed == Place(l, pick.pos, BLACK_KING)
    IN [placed EXCEPT
          !.blackKingZone = pick.rest,
          !.blackPieceZone = Without(l.blackPieceZone, pick.pos),
          !.pc = "blackPawns",
          !.i = 0]

\* "Place Black King", and the black pawn zone filtered to its empty cells
GenBlackKing(l, x) ==
    LET pick == pickRandom(l.blackKingZone, x)
        placed == Place(l, pick.pos, BLACK_KING)
    IN [placed EXCEPT
          !.blackKingZone = pick.rest,
          !.blackPieceZone = Without(l.blackPieceZone, pick.pos),
          !.blackPawnZone = OnlyEmpty(l.blackPawnZone, placed.board),
          !.pc = "blackPawns",
          !.i = 0]

\* one iteration of "Place Black Pawns"; the piece zone is filtered to its empty cells
\* when the loop is left
GenBlackPawn(l, x) ==
    LET pick == pickRandom(l.blackPawnZone, x)
        placed == Place(l, pick.pos, BLACK_PAWN)
        zone == Without(l.blackPieceZone, pick.pos)
    IN IF l.i + 1 < 8
       THEN [placed EXCEPT !.blackPawnZone = pick.rest, !.blackPieceZone = zone,
                           !.i = l.i + 1]
       ELSE [placed EXCEPT !.blackPawnZone = pick.rest,
                           !.blackPieceZone = OnlyEmpty(zone, placed.board),
                           !.pc = "blackPieces", !.i = 0]

\* one iteration of "Place Black Pieces"
GenBlackPiece(l, x) ==
    LET pick == pickRandom(l.blackPieceZone, x)
        placed == Place(l, pick.pos, blackPieces[l.i + 1])
    IN [placed EXCEPT !.blackPieceZone = pick.rest,
                      !.i = IF l.i + 1 < Len(blackPieces) THEN l.i + 1 ELSE 0,
                      !.pc = IF l.i + 1 < Len(blackPieces) THEN "blackPieces"
                             ELSE "done"]

\* the next placement of generateStartingPosition
GenStep(l, x) ==
    CASE l.pc = "whiteKing" -> GenWhiteKing(l, x)
      [] l.pc = "whitePawns" -> GenWhitePawn(l, x)
      [] l.pc = "whitePieces" -> GenWhitePiece(l, x)
      [] l.pc = "blackKing" -> GenBlackKing(l, x)
      [] l.pc = "blackPawns" -> GenBlackPawn(l, x)
      [] l.pc = "blackPieces" -> GenBlackPiece(l, x)

\* generateStartingPosition() run to its return, the random stream being at x: the
\* locals at the return and the stream after it
RECURSIVE generateStartingPosition(_, _)
generateStartingPosition(l, x) ==
    IF l.pc = "done" THEN [locals |-> l, rng |-> x]
    ELSE generateStartingPosition(GenStep(l, NextRand(x)), NextRand(x))

(* ------------------------------------------------------------------ *)
(* getState / loadState                                                *)
(* ------------------------------------------------------------------ *)

\* an absent (undefined) numeric field of a snapshot
Undefined == -2

\* getState() when Date.now() returns t: the game after it and the snapshot
getState(g, t) ==
    LET u == updateTime(g, t)
    IN [game |-> u,
        state |-> [board |-> u.board,
                   currentTurn |-> u.currentTurn,
                   moveNumber |-> u.moveNumber,
                   turnCount |-> u.turnCount,
                   gameOver |-> u.gameOver,
                   winner |-> u.winner,
                   lastMove |-> u.lastMove,
                   capturesAllowed |-> areCapturesAllowed(u.turnCount),
                   moveHistory |-> u.moveHistory,
                   whiteTime |-> u.whiteTime,
                   blackTime |-> u.blackTime,
                   timeControl |-> u.timeControl,
                   enPassantTarget |-> u.enPassantTarget]]

loadStateFalsyClocks(g, state) ==
    [g EXCEPT
       !.board = state.board,
       !.currentTurn = state.currentTurn,
       !.moveNumber = state.moveNumber,
       !.turnCount = IF state.turnCount # Undefined THEN state.turnCount
                     ELSE Len(state.moveHistory) + 1,
       !.gameOver = state.gameOver,
       !.winner = state.winner,
       !.lastMove = state.lastMove,
       !.moveHistory = state.moveHistory,
       !.whiteTime = IF state.whiteTime # Undefined /\ state.whiteTime # 0
                     THEN state.whiteTime ELSE g.whiteTime,
       !.blackTime = IF state.blackTime # Undefined /\ state.blackTime # 0
                     THEN state.blackTime ELSE g.blackTime,
       !.timeControl = IF state.timeControl # Undefined /\ state.timeControl # 0
                       THEN state.timeControl ELSE g.timeControl,
       !.enPassantTarget = IF state.enPassantTarget # Undefined THEN state.enPassantTarget
                           ELSE NoCell]

\* loadState(state)
loadState(g, state) ==
    [g EXCEPT
       !.board = state.board,
       !.currentTurn = state.currentTurn,
       !.moveNumber = state.moveNumber,
       !.turnCount = IF state.turnCount # Undefined THEN state.turnCount
                     ELSE Len(state.moveHistory) + 1,
       !.gameOver = state.gameOver,
       !.winner = state.winner,
       !.lastMove = state.lastMove,
       !.moveHistory = state.moveHistory,
       !.whiteTime = IF state.whiteTime # Undefined THEN state.whiteTime ELSE g.whiteTime,
       !.blackTime = IF state.blackTime # Undefined THEN state.blackTime ELSE g.blackTime,
       !.timeControl = IF state.timeControl # Undefined THEN state.timeControl
                       ELSE g.timeControl,
       !.enPassantTarget = IF state.enPassantTarget # Undefined THEN state.enPassantTarget
                           ELSE NoCell]

(* ------------------------------------------------------------------ *)
(* ChessAI (public/ai.js)                                              *)
(* ------------------------------------------------------------------ *)

\* PIECE_GLYPHS: the display glyph of each board tag, written as its code point; the
\* glyphs are the keys of ChessAI's tables
PIECE_GLYPHS ==
    (WHITE_KING :> "U+2654") @@ (WHITE_QUEEN :> "U+2655") @@
    (WHITE_ROOK :> "U+2656") @@ (WHITE_BISHOP :> "U+2657") @@
    (WHITE_KNIGHT :> "U+2658") @@ (WHITE_PAWN :> "U+2659") @@
    (BLACK_KING :> "U+265A") @@ (BLACK_QUEEN :> "U+265B") @@
    (BLACK_ROOK :> "U+265C") @@ (BLACK_BISHOP :> "U+265D") @@
    (BLACK_KNIGHT :> "U+265E") @@ (BLACK_PAWN :> "U+265F")

Difficulties == {"easy", "medium", "hard"}

getDepthForDifficulty(difficulty) ==
    CASE difficulty = "easy" -> 1
      [] difficulty = "medium" -> 3
      [] difficulty = "hard" -> 4
      [] OTHER -> 3

\* new ChessAI(difficulty)
ChessAI(difficulty) ==
    [difficulty |-> difficulty, maxDepth |-> getDepthForDifficulty(difficulty)]

\* static PIECE_VALUES of ChessAI
ChessAI_PIECE_VALUES ==
    ("U+2659" :> 100) @@ ("U+265F" :> -100) @@
    ("U+2658" :> 320) @@ ("U+265E" :> -320) @@
    ("U+2657" :> 330) @@ ("U+265D" :> -330) @@
    ("U+2656" :> 500) @@ ("U+265C" :> -500) @@
    ("U+2655" :> 900) @@ ("U+265B" :> -900) @@
    ("U+2654" :> 20000) @@ ("U+265A" :> -20000)

\* ChessAI.PIECE_VALUES[piece] || 0
PieceValue(piece) ==
    IF piece \in DOMAIN ChessAI_PIECE_VALUES THEN ChessAI_PIECE_VALUES[piece] ELSE 0

PAWN_TABLE ==
    << 0,  0,  0,  0,  0,  0,  0,  0,
       50, 50, 50, 50, 50, 50, 50, 50,
       10, 10, 20, 30, 30, 20, 10, 10,
       5,  5, 10, 25, 25, 10,  5,  5,
       0,  0,  0, 20, 20,  0,  0,  0,
       5, -5,-10,  0,  0,-10, -5,  5,
       5, 10, 10,-20,-20, 10, 10,  5,
       0,  0,  0,  0,  0,  0,  0,  0 >>

KNIGHT_TABLE ==
    << -50,-40,-30,-30,-30,-30,-40,-50,
       -40,-20,  0,  0,  0,  0,-20,-40,
       -30,  0, 10, 15, 15, 10,  0,-30,
       -30,  5, 15, 20, 20, 15,  5,-30,
       -30,  0, 15, 20, 20, 15,  0,-30,
       -30,  5, 10, 15, 15, 10,  5,-30,
       -40,-20,  0,  5,  5,  0,-20,-40,
       -50,-40,-30,-30,-30,-30,-40,-50 >>

BISHOP_TABLE ==
    << -20,-10,-10,-10,-10,-10,-10,-20,
       -10,  0,  0,  0,  0,  0,  0,-10,
       -10,  0,  5, 10, 10,  5,  0,-10,
       -10,  5,  5, 10, 10,  5,  5,-10,
       -10,  0, 10, 10, 10, 10,  0,-10,
       -10, 10, 10, 10, 10, 10, 10,-10,
       -10,  5,  0,  0,  0,  0,  5,-10,
       -20,-10,-10,-10,-10,-10,-10,-20 >>

ROOK_TABLE ==
    << 0,  0,  0,  0,  0,  0,  0,  0,
       5, 10, 10, 10, 10, 10, 10,  5,
       -5,  0,  0,  0,  0,  0,  0, -5,
       -5,  0,  0,  0,  0,  0,  0, -5,
       -5,  0,  0,  0,  0,  0,  0, -5,
       -5,  0,  0,  0,  0,  0,  0, -5,
       -5,  0,  0,  0,  0,  0,  0, -5,
       0,  0,  0,  5,  5,  0,  0,  0 >>

QUEEN_TABLE ==
    << -20,-10,-10, -5, -5,-10,-10,-20,
       -10,  0,  0,  0,  0,  0,  0,-10,
       -10,  0,  5,  5,  5,  5,  0,-10,
       -5,  0,  5,  5,  5,  5,  0, -5,
       0,  0,  5,  5,  5,  5,  0, -5,
       -10,  5,  5,  5,  5,  5,  0,-10,
       -10,  0,  5,  0,  0,  0,  0,-10,
       -20,-10,-10, -5, -5,-10,-10,-20 >>

KING_TABLE ==
    << -30,-40,-40,-50,-50,-40,-40,-30,
       -30,-40,-40,-50,-50,-40,-40,-30,
       -30,-40,-40,-50,-50,-40,-40,-30,
       -30,-40,-40,-50,-50,-40,-40,-30,
       -20,-30,-30,-40,-40,-30,-30,-20,
       -10,-20,-20,-20,-20,-20,-20,-10,
       20, 20,  0,  0,  0,  0, 20, 20,
       20, 30, 10,  0,  0, 10, 30, 20 >>

\* the table the switch of getPieceSquareValue selects, << >> for its default branch
PieceSquareTable(piece) ==
    CASE piece \in {"U+2659", "U+265F"} -> PAWN_TABLE
      [] piece \in {"U+2658", "U+265E"} -> KNIGHT_TABLE
      [] piece \in {"U+2657", "U+265D"} -> BISHOP_TABLE
      [] piece \in {"U+2656", "U+265C"} -> ROOK_TABLE
      [] piece \in {"U+2655", "U+265B"} -> QUEEN_TABLE
      [] piece \in {"U+2654", "U+265A"} -> KING_TABLE
      [] OTHER -> << >>

getPieceSquareValue(piece, index, isWhite) ==
    LET table == PieceSquareTable(piece)
        row == index \div 8
        col == index % 8
        adjustedIndex == IF isWhite THEN ((7 - row) * 8 + col) ELSE (row * 8 + col)
    IN IF table = << >> THEN 0
       ELSE IF isWhite THEN table[adjustedIndex + 1] ELSE -table[adjustedIndex + 1]

\* A score is whole + part / ScoreParts with 0 <= part < ScoreParts: the random factor
\* of the easy mode is a multiple of 1 / ScoreParts, every other term is whole
ScoreParts == 32768

Score(n) == [whole |-> n, part |-> 0]

ScoreLess(a, b) == a.whole < b.whole \/ (a.whole = b.whole /\ a.part < b.part)

ScoreLeq(a, b) == ~ScoreLess(b, a)

\* Math.max, Math.min
ScoreMax(a, b) == IF ScoreLess(a, b) THEN b ELSE a

ScoreMin(a, b) == IF ScoreLess(b, a) THEN b ELSE a

\* Infinity: above every score
Infinity == 1000000000

\* the element of a set of one element: The({e(v) : v \in {d}}) is e(d), with d
\* evaluated once
The(S) == CHOOSE v \in S : TRUE

\* the cells 0 .. 63 in the order of the loops `for (let i = 0; i < 64; i++)`
CellSeq == [k \in 1 .. 64 |-> k - 1]

\* the cells the loops do not skip with `if (!piece) continue`
OccupiedCells(b) == SelectSeq(CellSeq, LAMBDA i : b[i] # Null)

\* the "material and positional evaluation" loop of evaluatePosition over the cells
\* cells[k], cells[k + 1], ...
RECURSIVE MaterialAndPosition(_, _, _)
MaterialAndPosition(b, cells, k) ==
    IF k > Len(cells) THEN 0
    ELSE PieceValue(b[cells[k]])
         + getPieceSquareValue(b[cells[k]], cells[k], isWhitePiece(b[cells[k]]))
         + MaterialAndPosition(b, cells, k + 1)

\* one iteration of the mobility loop of evaluatePosition, for the piece on cell i:
\* game.currentTurn is set to the colour of the piece and its moves are counted
MobilityStep(g, i, whiteMobility, blackMobility) ==
    LET isWhite == isWhitePiece(g.board[i])
        turned == [g EXCEPT !.currentTurn = IF isWhite THEN "white" ELSE "black"]
        count == Len(getValidMoves(turned, i))
    IN [game |-> turned,
        whiteMobility |-> IF isWhite THEN whiteMobility + count ELSE whiteMobility,
        blackMobility |-> IF isWhite THEN blackMobility ELSE blackMobility + count]

\* the mobility loop of evaluatePosition from cells[k] on: the moves counted for each
\* colour and the game as the loop leaves it
RECURSIVE CountMobility(_, _, _, _, _)
CountMobility(g, cells, k, whiteMobility, blackMobility) ==
    IF k > Len(cells)
    THEN [game |-> g, whiteMobility |-> whiteMobility, blackMobility |-> blackMobility]
    ELSE The({ CountMobility(s.game, cells, k + 1, s.whiteMobility, s.blackMobility) :
               s \in {MobilityStep(g, cells[k], whiteMobility, blackMobility)} })

\* score + (Math.random() - 0.5) * 50 for the random value x / RandMod
AddRandomFactor(score, x) ==
    [whole |-> score.whole - 25 + ((25 * x) \div ScoreParts),
     part |-> (25 * x) % ScoreParts]

\* the score of a game that is not over, the mobility loop having left `counted`
StaticScore(g, cells, counted) ==
    MaterialAndPosition(g.board, cells, 1)
    + (counted.whiteMobility - counted.blackMobility) * 5
    + (IF isInCheck(g.board, "black") THEN 50 ELSE 0)
    - (IF isInCheck(g.board, "white") THEN 50 ELSE 0)

\* evaluatePosition(game) of the ChessAI `a`, the random stream being at x: the score, the
\* game after the call and the random stream after it
evaluatePosition(a, g, x) ==
    IF g.gameOver
    THEN [score |-> IF g.winner = "white" THEN Score(100000)
                    ELSE IF g.winner = "black" THEN Score(-100000)
                    ELSE Score(0),
          game |-> g, rng |-> x]
    ELSE The({ LET currentTurn == g.currentTurn
                   restored == [counted.game EXCEPT !.currentTurn = currentTurn]
                   score == Score(StaticScore(restored, OccupiedCells(g.board), counted))
               IN IF a.difficulty = "easy"
                  THEN [score |-> AddRandomFactor(score, NextRand(x)),
                        game |-> restored, rng |-> NextRand(x)]
                  ELSE [score |-> score, game |-> restored, rng |-> x] :
               counted \in {CountMobility(g, OccupiedCells(g.board), 1, 0, 0)} })

\* a move as getAllMoves lists it, and null
AIMove(from, move) == [from |-> from, to |-> move.to, isCapture |-> move.isCapture]

NoMove == [from |-> NoCell, to |-> NoCell, isCapture |-> FALSE]

\* pieceMoves as the moves pushed for the piece on cell i
PushMoves(i, pieceMoves) == [k \in 1 .. Len(pieceMoves) |-> AIMove(i, pieceMoves[k])]

\* the loop of getAllMoves from cells[k] on, game.currentTurn being color
RECURSIVE CollectMoves(_, _, _, _)
CollectMoves(g, color, cells, k) ==
    IF k > Len(cells) THEN << >>
    ELSE (IF getPieceColor(g.board[cells[k]]) # color THEN << >>
          ELSE PushMoves(cells[k], getValidMoves(g, cells[k])))
         \o CollectMoves(g, color, cells, k + 1)

\* getAllMoves(game, color): the moves and the game after the call
getAllMoves(g, color) ==
    The({ [moves |-> CollectMoves(turned, color, OccupiedCells(g.board), 1),
           game |-> [turned EXCEPT !.currentTurn = g.currentTurn]] :
          turned \in {[g EXCEPT !.currentTurn = color]} })

\* makeTemporaryMove(game, from, to): the game after it and what its undo function holds
makeTemporaryMove(g, from, to) ==
    LET capturedPiece == g.board[to]
        movedPiece == g.board[from]
        moved == [g.board EXCEPT ![to] = movedPiece, ![from] = Null]
        promoted == (movedPiece = "U+2659" /\ getRow(to) = 7)
                    \/ (movedPiece = "U+265F" /\ getRow(to) = 0)
    IN [game |-> [g EXCEPT
                    !.board = IF promoted
                              THEN [moved EXCEPT ![to] = IF isWhitePiece(movedPiece)
                                                         THEN "U+2655"
                                                         ELSE "U+265B"]
                              ELSE moved,
                    !.moveNumber = IF g.currentTurn = "black" THEN g.moveNumber + 1
                                   ELSE g.moveNumber,
                    !.currentTurn = IF g.currentTurn = "white" THEN "black" ELSE "white"],
        undo |-> [from |-> from, to |-> to, movedPiece |-> movedPiece,
                  capturedPiece |-> capturedPiece, oldTurn |-> g.currentTurn,
                  oldMoveNumber |-> g.moveNumber]]

undoKeepsMoveNumber(g, u) ==
    [g EXCEPT !.board = [[g.board EXCEPT ![u.from] = u.movedPiece]
                         EXCEPT ![u.to] = u.capturedPiece],
              !.currentTurn = u.oldTurn]

\* undo(): the function makeTemporaryMove returned, called on the game as it is by then
undo(g, u) ==
    [g EXCEPT !.board = [[g.board EXCEPT ![u.from] = u.movedPiece]
                         EXCEPT ![u.to] = u.capturedPiece],
              !.currentTurn = u.oldTurn,
              !.moveNumber = u.oldMoveNumber]

\* moves.sort(captures first), the sort being stable
SortCapturesFirst(moves) ==
    SelectSeq(moves, LAMBDA m : m.isCapture) \o SelectSeq(moves, LAMBDA m : ~m.isCapture)

\* the score of a side to move without a move
NoMovesScore(a, g, color, depth, isMaximizing) ==
    IF isInCheck(g.board, color)
    THEN IF isMaximizing THEN Score(-100000 + (a.maxDepth - depth))
         ELSE Score(100000 - (a.maxDepth - depth))
    ELSE Score(0)

CutoffAlways(alpha, beta) == TRUE

\* `if (beta <= alpha) break`
Cutoff(alpha, beta) == ScoreLeq(beta, alpha)

RECURSIVE minimax(_, _, _, _, _, _, _)

\* one iteration of the loop of minimax, for `move`: the temporary move, the recursive
\* call, the undo, and maxEval and alpha (minEval and beta in the minimizing branch)
\* after it
SearchStep(a, g, move, depth, alpha, beta, best, isMaximizing, x) ==
    The({ The({ [game |-> undo(sub.game, temp.undo),
                 rng |-> sub.rng,
                 evaluated |-> sub.evaluated,
                 best |-> IF isMaximizing THEN ScoreMax(best, sub.score)
                          ELSE ScoreMin(best, sub.score),
                 alpha |-> IF isMaximizing THEN ScoreMax(alpha, sub.score) ELSE alpha,
                 beta |-> IF isMaximizing THEN beta ELSE ScoreMin(beta, sub.score)] :
                sub \in {minimax(a, temp.game, depth - 1, alpha, beta, ~isMaximizing,
                                 x)} }) :
          temp \in {makeTemporaryMove(g, move.from, move.to)} })

\* the loop of minimax over the ordered moves from moves[k] on, in its maximizing branch
\* (best is maxEval) or its minimizing branch (best is minEval); `evaluated` counts the
\* calls of minimax made so far, this one included
RECURSIVE SearchLoop(_, _, _, _, _, _, _, _, _, _, _)
SearchLoop(a, g, moves, k, depth, alpha, beta, best, isMaximizing, x, evaluated) ==
    IF k > Len(moves)
    THEN [score |-> best, game |-> g, rng |-> x, evaluated |-> evaluated]
    ELSE The({ IF Cutoff(s.alpha, s.beta)
               THEN [score |-> s.best, game |-> s.game, rng |-> s.rng,
                     evaluated |-> evaluated + s.evaluated]
               ELSE SearchLoop(a, s.game, moves, k + 1, depth, s.alpha, s.beta, s.best,
                               isMaximizing, s.rng, evaluated + s.evaluated) :
               s \in {SearchStep(a, g, moves[k], depth, alpha, beta, best, isMaximizing,
                                 x)} })

\* minimax(game, depth, alpha, beta, isMaximizing) of the ChessAI `a`, the random stream
\* being at x: the score, the game after the call, the random stream after it and the
\* number of times the call raised positionsEvaluated
minimax(a, g, depth, alpha, beta, isMaximizing, x) ==
    IF depth = 0
    THEN The({ [score |-> leaf.score, game |-> leaf.game, rng |-> leaf.rng,
                evaluated |-> 1] :
               leaf \in {evaluatePosition(a, g, x)} })
    ELSE The({ IF Len(all.moves) = 0
               THEN [score |-> NoMovesScore(a, all.game,
                                            IF isMaximizing THEN "white" ELSE "black",
                                            depth, isMaximizing),
                     game |-> all.game, rng |-> x, evaluated |-> 1]
               ELSE The({ SearchLoop(a, all.game, moves, 1, depth, alpha, beta,
                                     IF isMaximizing THEN Score(-Infinity)
                                     ELSE Score(Infinity),
                                     isMaximizing, x, 1) :
                          moves \in {SortCapturesFirst(all.moves)} }) :
               all \in {getAllMoves(g, IF isMaximizing THEN "white" ELSE "black")} })

InitialBestScoreZero(isMaximizing) == Score(0)

\* let bestScore = isMaximizing ? -Infinity : Infinity
InitialBestScore(isMaximizing) ==
    IF isMaximizing THEN Score(-Infinity) ELSE Score(Infinity)

BetterOrEqual(isMaximizing, score, bestScore) ==
    IF isMaximizing THEN ~ScoreLess(score, bestScore) ELSE ~ScoreLess(bestScore, score)

\* `score > bestScore` for white, `score < bestScore` for black
Better(isMaximizing, score, bestScore) ==
    IF isMaximizing THEN ScoreLess(bestScore, score) ELSE ScoreLess(score, bestScore)

\* one iteration of the loop of findBestMove, for `move`
RootStep(a, g, move, isMaximizing, bestMove, bestScore, x) ==
    The({ The({ [game |-> undo(sub.game, temp.undo),
                 rng |-> sub.rng,
                 score |-> sub.score,
                 bestMove |-> IF Better(isMaximizing, sub.score, bestScore) THEN move
                              ELSE bestMove,
                 bestScore |-> IF Better(isMaximizing, sub.score, bestScore)
                               THEN sub.score ELSE bestScore] :
                sub \in {minimax(a, temp.game, a.maxDepth - 1, Score(-Infinity),
                                 Score(Infinity), ~isMaximizing, x)} }) :
          temp \in {makeTemporaryMove(g, move.from, move.to)} })

\* the loop of findBestMove over the ordered moves from moves[k] on; `scores` lists the
\* score minimax gave for each move tried so far
RECURSIVE RootLoop(_, _, _, _, _, _, _, _, _)
RootLoop(a, g, moves, k, isMaximizing, bestMove, bestScore, scores, x) ==
    IF k > Len(moves)
    THEN [bestMove |-> bestMove, bestScore |-> bestScore, scores |-> scores,
          game |-> g, rng |-> x]
    ELSE The({ The({ RootLoop(a, s.game, moves, k + 1, isMaximizing, s.bestMove,
                              s.bestScore, tried, s.rng) :
                     tried \in {Append(scores, s.score)} }) :
               s \in {RootStep(a, g, moves[k], isMaximizing, bestMove, bestScore, x)} })

\* Math.random() < 0.3 and Math.random() < 0.15 for the random value x / RandMod
RandomBelow30(x) == x * 10 < 3 * RandMod

RandomBelow15(x) == x * 100 < 15 * RandMod

\* the part of findBestMove after the easy shortcut: the search over the ordered moves,
\* then the deviation of the medium difficulty
SearchedMove(a, g, moves, isMaximizing, x) ==
    The({ LET x1 == NextRand(searched.rng)
              x2 == NextRand(x1)
              topMoves == SubSeq(moves, 1, IF Len(moves) < 3 THEN Len(moves) ELSE 3)
              deviated == a.difficulty = "medium" /\ RandomBelow15(x1) /\ Len(moves) > 1
          IN [move |-> IF deviated THEN topMoves[RandomIndex(x2, Len(topMoves)) + 1]
                       ELSE searched.bestMove,
              game |-> searched.game,
              rng |-> IF a.difficulty # "medium" THEN searched.rng
                      ELSE IF deviated THEN x2 ELSE x1,
              searched |-> TRUE, deviated |-> deviated, moves |-> moves,
              scores |-> searched.scores] :
          searched \in {RootLoop(a, g, moves, 1, isMaximizing, NoMove,
                                 InitialBestScore(isMaximizing), << >>, x)} })

\* findBestMove(game) of the ChessAI `a`, the random stream being at x: the move returned
\* (NoMove for null), the game and the random stream after the call, and what the call
\* did: whether it searched, whether it took the deviation of the medium difficulty, the
\* moves in the order it held them and the score the search gave each of them
findBestMove(a, g, x) ==
    The({ LET x1 == NextRand(x)
              x2 == NextRand(x1)
          IN IF Len(all.moves) = 0
             THEN [move |-> NoMove, game |-> all.game, rng |-> x, searched |-> FALSE,
                   deviated |-> FALSE, moves |-> << >>, scores |-> << >>]
             ELSE IF a.difficulty = "easy" /\ RandomBelow30(x1)
             THEN [move |-> all.moves[RandomIndex(x2, Len(all.moves)) + 1],
                   game |-> all.game, rng |-> x2, searched |-> FALSE,
                   deviated |-> FALSE, moves |-> all.moves, scores |-> << >>]
             ELSE The({ SearchedMove(a, all.game, moves, g.currentTurn = "white",
                                     IF a.difficulty = "easy" THEN x1 ELSE x) :
                        moves \in {SortCapturesFirst(all.moves)} }) :
          all \in {getAllMoves(g, g.currentTurn)} })

(* ------------------------------------------------------------------ *)
(* The state machine                                                   *)
(* ------------------------------------------------------------------ *)

VARIABLES
    game,       \* the fields of the KalasRandomChess object
    result,     \* the last call made on it, and what it returned
    gen,        \* the locals of a running generateStartingPosition
    rng,        \* the state of Math.random()
    now,        \* Date.now()
    ai,         \* the fields of the ChessAI object playing against the user, if any
    heap,       \* the arrays that games and snapshots refer to, and who refers to which
    page,       \* the globals of main.js and the callbacks it has pending
    server      \* the maps of server.js, the sockets and the timers it has pending

vars == << game, result, gen, rng, now, ai, heap, page, server >>

\* no snapshot was taken, no page is open, no server is running
NoHeap == << >>

NoPage == << >>

NoServer == << >>

\* no ChessAI object was constructed
NoAI == [difficulty |-> Null, maxDepth |-> 0]

\* the call `op` and the object it returned
Call(op, ret) ==
    [op |-> op, success |-> ret.success, error |-> ret.error, move |-> ret.move,
     gameStatus |-> ret.gameStatus]

Returned(status) ==
    [success |-> TRUE, error |-> Null, move |-> NoRecord, gameStatus |-> status]

\* a board with the given pieces, as a snapshot lists it
BoardOf(pieces) ==
    [i \in Cells |-> IF \E k \in 1 .. Len(pieces) : pieces[k][1] = i
                     THEN (CHOOSE q \in {pieces[k] : k \in 1 .. Len(pieces)} : q[1] = i)[2]
                     ELSE Null]

\* a snapshot as getState returns it for a game with the given position
Snapshot(pieces, currentTurn, turnCount) ==
    [board |-> BoardOf(pieces),
     currentTurn |-> currentTurn,
     moveNumber |-> (turnCount + 1) \div 2,
     turnCount |-> turnCount,
     gameOver |-> FALSE,
     winner |-> Null,
     lastMove |-> NoLastMove,
     capturesAllowed |-> areCapturesAllowed(turnCount),
     moveHistory |-> << >>,
     whiteTime |-> 600000,
     blackTime |-> 600000,
     timeControl |-> 10,
     enPassantTarget |-> NoCell]

\* a position of a game in progress (white: Ka1 Nf2 Ph2, black: Kc3 Ph3), white to move
Midgame ==
    Snapshot(<< <<0, "K">>, <<13, "N">>, <<15, "P">>, <<18, "k">>, <<23, "p">> >>,
             "white", 41)

\* a position set up for the first half-move, the black king walled in on h8
\* (white: Ka1 Ne5 Pg5 Ph6 Pf7, black: Kh8 Bg8 Pg7 Ph7), white to move
Cornered ==
    Snapshot(<< <<0, "K">>, <<36, "N">>, <<38, "P">>, <<47, "P">>, <<53, "P">>,
                <<63, "k">>, <<62, "b">>, <<54, "p">>, <<55, "p">> >>,
             "white", 1)

\* the same with the white king on f6, attacked by the pawn on g7
CorneredInCheck ==
    Snapshot(<< <<45, "K">>, <<36, "N">>, <<38, "P">>, <<47, "P">>, <<53, "P">>,
                <<63, "k">>, <<62, "b">>, <<54, "p">>, <<55, "p">> >>,
             "white", 1)

\* the seeds of the random stream in the games played from a generated position
GameSeeds == {0}

\* the snapshots loadState is given
Snapshots == {Midgame, Cornered, CorneredInCheck}

Init ==
    /\ game = NewGame(10)
    /\ result = Call("new", Returned(NoStatus))
    /\ gen = [GenEntry EXCEPT !.pc = "idle"]
    /\ rng \in GameSeeds
    /\ now = 1000
    /\ ai = NoAI
    /\ heap = NoHeap
    /\ page = NoPage
    /\ server = NoServer

GenerateStartingPosition ==
    /\ result.op = "new"
    /\ LET run == generateStartingPosition(GenEntry, rng)
       IN /\ game' = [game EXCEPT !.board = run.locals.board]
          /\ gen' = run.locals
          /\ rng' = run.rng
    /\ result' = Call("generateStartingPosition", Returned(NoStatus))
    /\ UNCHANGED << now, ai, heap, page, server >>

LoadState ==
    /\ result.op = "new"
    /\ \E state \in Snapshots : game' = loadState(game, state)
    /\ result' = Call("loadState", Returned(NoStatus))
    /\ UNCHANGED << gen, rng, now, ai, heap, page, server >>

\* makeMove returns before it reads toIndex when the source cell is empty or holds a
\* piece of the side not to move: one toIndex stands for all of them there
ToIndexes(g, fromIndex) ==
    IF g.board[fromIndex] = Null \/ getPieceColor(g.board[fromIndex]) # g.currentTurn
    THEN {fromIndex}
    ELSE Cells

MakeMove ==
    /\ result.op # "new"
    /\ Len(game.moveHistory) < (IF gen.pc = "done" THEN MaxStartPlies ELSE MaxPlies)
    /\ \E fromIndex \in Cells :
          \E toIndex \in ToIndexes(game, fromIndex) :
             LET call == makeMove(game, fromIndex, toIndex, now)
             IN /\ game' = call.game
                /\ result' = Call("makeMove", call.ret)
    /\ UNCHANGED << gen, rng, now, ai, heap, page, server >>

Next == GenerateStartingPosition \/ LoadState \/ MakeMove

Spec == Init /\ [][Next]_vars

(* ------------------------------------------------------------------ *)
(* generateStartingPosition, one placement at a time                   *)
(* ------------------------------------------------------------------ *)

InitGen ==
    /\ game = NewGame(10)
    /\ result = Call("new", Returned(NoStatus))
    /\ gen = GenEntry
    /\ rng \in 0 .. MaxSeed
    /\ now = 1000
    /\ ai = NoAI
    /\ heap = NoHeap
    /\ page = NoPage
    /\ server = NoServer

\* the placement made at position pc of generateStartingPosition
Placement(pc) ==
    /\ gen.pc = pc
    /\ rng' = NextRand(rng)
    /\ gen' = GenStep(gen, rng')
    /\ game' = [game EXCEPT !.board = gen'.board]
    /\ result' = IF gen'.pc = "done"
                 THEN Call("generateStartingPosition", Returned(NoStatus))
                 ELSE result
    /\ UNCHANGED << now, ai, heap, page, server >>

PlaceWhiteKing == Placement("whiteKing")

PlaceWhitePawn == Placement("whitePawns")

PlaceWhitePiece == Placement("whitePieces")

PlaceBlackKing == Placement("blackKing")

PlaceBlackPawn == Placement("blackPawns")

PlaceBlackPiece == Placement("blackPieces")

NextGen ==
    \/ PlaceWhiteKing
    \/ PlaceWhitePawn
    \/ PlaceWhitePiece
    \/ PlaceBlackKing
    \/ PlaceBlackPawn
    \/ PlaceBlackPiece

SpecGen == InitGen /\ [][NextGen]_vars

\* the boards on which the move generators are compared with the rules of movement: every
\* board a placement passes through, from the empty board to the full starting position
InitMoves ==
    /\ game = NewGame(10)
    /\ result = Call("new", Returned(NoStatus))
    /\ gen = GenEntry
    /\ rng \in 0 .. MaxMoveSeed
    /\ now = 1000
    /\ ai = NoAI
    /\ heap = NoHeap
    /\ page = NoPage
    /\ server = NoServer

SpecMoves == InitMoves /\ [][NextGen]_vars

(* ------------------------------------------------------------------ *)
(* Pawn play: double pushes, en passant and promotion                  *)
(* ------------------------------------------------------------------ *)

\* white to move (white: Ka1 Pe2 Pd5 Pg7, black: Ka8 Pc7 Pd6 Pf5 Pd4 Pf4 Ph2): e2-e4 can
\* be answered by d4xe3 or f4xe3 en passant, g7 and h2 are one step from promotion, d5
\* and d6 block each other
WhitePushes ==
    Snapshot(<< <<0, "K">>, <<12, "P">>, <<35, "P">>, <<54, "P">>,
                <<56, "k">>, <<50, "p">>, <<43, "p">>, <<37, "p">>, <<27, "p">>,
                <<29, "p">>, <<15, "p">> >>,
             "white", 11)

\* black to move (white: Ka1 Pb5 Pd5 Pg7, black: Ka8 Pc7 Pd4 Ph2): c7-c5 can be answered
\* by b5xc6 or d5xc6 en passant
BlackPushes ==
    Snapshot(<< <<0, "K">>, <<33, "P">>, <<35, "P">>, <<54, "P">>,
                <<56, "k">>, <<50, "p">>, <<27, "p">>, <<15, "p">> >>,
             "black", 12)

\* the positions of pawn play, that of a king checked by a pawn on the first half-move
\* among them
PawnSnapshots == {WhitePushes, BlackPushes, CorneredInCheck}

LoadPawnState ==
    /\ result.op = "new"
    /\ \E state \in PawnSnapshots : game' = loadState(game, state)
    /\ result' = Call("loadState", Returned(NoStatus))
    /\ UNCHANGED << gen, rng, now, ai, heap, page, server >>

PawnMove ==
    /\ result.op # "new"
    /\ Len(game.moveHistory) < MaxPawnPlies
    /\ \E fromIndex \in Cells :
          \E toIndex \in ToIndexes(game, fromIndex) :
             LET call == makeMove(game, fromIndex, toIndex, now)
             IN /\ game' = call.game
                /\ result' = Call("makeMove", call.ret)
    /\ UNCHANGED << gen, rng, now, ai, heap, page, server >>

NextPawn == LoadPawnState \/ PawnMove

SpecPawn == Init /\ [][NextPawn]_vars

(* ------------------------------------------------------------------ *)
(* The clocks                                                          *)
(* ------------------------------------------------------------------ *)

\* the time controls (minutes) a game is constructed with: untimed and one minute
TimeControls == {0, 1}

\* Date.now() at construction, and the step by which it is seen to advance
ClockStart == 1000

TickMs == 25000

\* a position of a game in progress (white: Ka1 Pe2, black: Kh8), white to move, as a
\* snapshot without clock fields: loadState keeps the clocks of the game it is loaded into
ClockPosition ==
    [Snapshot(<< <<0, "K">>, <<12, "P">>, <<63, "k">> >>, "white", 41)
     EXCEPT !.whiteTime = Undefined, !.blackTime = Undefined, !.timeControl = Undefined]

InitClock ==
    /\ \E timeControl \in TimeControls : game = NewGame(timeControl)
    /\ result = Call("new", Returned(NoStatus))
    /\ gen = [GenEntry EXCEPT !.pc = "idle"]
    /\ rng = 0
    /\ now = ClockStart
    /\ ai = NoAI
    /\ heap = NoHeap
    /\ page = NoPage
    /\ server = NoServer

ClockLoadState ==
    /\ result.op = "new"
    /\ game' = loadState(game, ClockPosition)
    /\ result' = Call("loadState", Returned(NoStatus))
    /\ UNCHANGED << gen, rng, now, ai, heap, page, server >>

\* wall-clock time passes
Tick ==
    /\ now + TickMs <= ClockStart + MaxTicks * TickMs
    /\ now' = now + TickMs
    /\ UNCHANGED << game, result, gen, rng, ai, heap, page, server >>

\* startTimer() and updateTime() return nothing: `result` keeps the last returned object
StartTimer ==
    /\ result.op # "new"
    /\ game' = startTimer(game, now)
    /\ UNCHANGED << result, gen, rng, now, ai, heap, page, server >>

UpdateTime ==
    /\ result.op # "new"
    /\ game' = updateTime(game, now)
    /\ UNCHANGED << result, gen, rng, now, ai, heap, page, server >>

CheckTimeout ==
    /\ result.op # "new"
    /\ LET call == checkTimeout(game, now)
       IN /\ game' = call.game
          /\ result' = Call("checkTimeout", Returned(call.status))
    /\ UNCHANGED << gen, rng, now, ai, heap, page, server >>

ClockMove ==
    /\ result.op # "new"
    /\ Len(game.moveHistory) < MaxClockPlies
    /\ \E fromIndex \in Cells :
          \E toIndex \in ToIndexes(game, fromIndex) :
             LET call == makeMove(game, fromIndex, toIndex, now)
             IN /\ game' = call.game
                /\ result' = Call("makeMove", call.ret)
    /\ UNCHANGED << gen, rng, now, ai, heap, page, server >>

NextClock ==
    \/ ClockLoadState
    \/ Tick
    \/ StartTimer
    \/ UpdateTime
    \/ CheckTimeout
    \/ ClockMove

SpecClock == InitClock /\ [][NextClock]_vars

(* ------------------------------------------------------------------ *)
(* Every operation of the game object                                  *)
(* ------------------------------------------------------------------ *)

\* a position of a game in progress (white: Ka1 Pe2, black: Kh8 Pd3), white to move:
\* e2xd3 is a capture
OpsPosition ==
    [Snapshot(<< <<0, "K">>, <<12, "P">>, <<63, "k">>, <<19, "p">> >>, "white", 41)
     EXCEPT !.whiteTime = Undefined, !.blackTime = Undefined, !.timeControl = Undefined]

OpsLoadState ==
    /\ result.op = "new"
    /\ game' = loadState(game, OpsPosition)
    /\ result' = Call("loadState", Returned(NoStatus))
    /\ UNCHANGED << gen, rng, now, ai, heap, page, server >>

\* stopTimer() returns nothing
StopTimer ==
    /\ result.op # "new"
    /\ game' = stopTimer(game, now)
    /\ UNCHANGED << result, gen, rng, now, ai, heap, page, server >>

\* getState() and getTimeRemaining(color) return a value that is no status object:
\* `result` keeps the last returned status object
GetState ==
    /\ result.op # "new"
    /\ game' = getState(game, now).game
    /\ UNCHANGED << result, gen, rng, now, ai, heap, page, server >>

GetTimeRemaining ==
    /\ result.op # "new"
    /\ \E color \in {"white", "black"} : game' = getTimeRemaining(game, color, now).game
    /\ UNCHANGED << result, gen, rng, now, ai, heap, page, server >>

\* getValidMoves(fromIndex), isInCheck(color) and hasValidMoves(color) read the game and
\* assign none of its fields, whatever their argument; what they return is not kept
GetValidMoves ==
    /\ result.op # "new"
    /\ UNCHANGED vars

IsInCheck ==
    /\ result.op # "new"
    /\ UNCHANGED vars

HasValidMoves ==
    /\ result.op # "new"
    /\ UNCHANGED vars

Resign ==
    /\ result.op # "new"
    /\ \E color \in {"white", "black"} :
          LET call == resign(game, color)
          IN /\ game' = call.game
             /\ result' = Call("resign", Returned(call.status))
    /\ UNCHANGED << gen, rng, now, ai, heap, page, server >>

\* the cells makeMove is called with: from e2 (white pawn), h8 (black king) and a6 (empty),
\* to d3 (a capture for the pawn), e3 (a push) and g8 (a step of the black king)
OpsFromIndexes == {12, 63, 40}

OpsToIndexes == {19, 20, 62}

OpsMove ==
    /\ result.op # "new"
    /\ Len(game.moveHistory) < MaxOpsPlies
    /\ \E fromIndex \in OpsFromIndexes :
          \E toIndex \in OpsToIndexes :
             LET call == makeMove(game, fromIndex, toIndex, now)
             IN /\ game' = call.game
                /\ result' = Call("makeMove", call.ret)
    /\ UNCHANGED << gen, rng, now, ai, heap, page, server >>

NextOps ==
    \/ OpsLoadState
    \/ Tick
    \/ StartTimer
    \/ StopTimer
    \/ UpdateTime
    \/ CheckTimeout
    \/ GetState
    \/ GetTimeRemaining
    \/ GetValidMoves
    \/ IsInCheck
    \/ HasValidMoves
    \/ Resign
    \/ OpsMove

SpecOps == InitClock /\ [][NextOps]_vars

(* ------------------------------------------------------------------ *)
(* A game against the ChessAI                                          *)
(* ------------------------------------------------------------------ *)

\* white to move (white: Ka1 Pe2, black: Kh8 Pd3): e2xd3 and d3xe2 are captures
AIMidgame ==
    Snapshot(<< <<0, "K">>, <<12, "P">>, <<63, "k">>, <<19, "p">> >>, "white", 41)

\* black to move on the second half-move, when captures are not allowed yet (white: Ka1
\* Ng8 Pg7 Ph7, black: Kh8): black has no move
AINoMoves ==
    Snapshot(<< <<0, "K">>, <<62, "N">>, <<54, "P">>, <<55, "P">>, <<63, "k">> >>,
             "black", 2)

\* black to move (white: Ka1, black: Kh8 Na4): the knight's moves are generated first
AIKnightEnding ==
    Snapshot(<< <<0, "K">>, <<63, "k">>, <<24, "n">> >>, "black", 42)

\* the snapshots a game against the ChessAI is resumed from
AISnapshots == {AIMidgame, AINoMoves, AIKnightEnding}

\* the seeds of Math.random(): from 1 the first value drawn is 0.595..., from 5 the first
\* values drawn are 0.131... and 0.685...
AISeeds == {1, 5}

\* findBestMove() returned: the move, and what the call did
Found(run) ==
    [op |-> "findBestMove", success |-> run.move # NoMove, error |-> Null,
     move |-> NoRecord, gameStatus |-> NoStatus, best |-> run.move,
     searched |-> run.searched, deviated |-> run.deviated, moves |-> run.moves,
     scores |-> run.scores]

InitAI ==
    /\ game = NewGame(10)
    /\ result = Call("new", Returned(NoStatus))
    /\ gen = [GenEntry EXCEPT !.pc = "idle"]
    /\ rng \in AISeeds
    /\ now = 1000
    /\ \E difficulty \in Difficulties : ai = ChessAI(difficulty)
    /\ heap = NoHeap
    /\ page = NoPage
    /\ server = NoServer

AILoadState ==
    /\ result.op = "new"
    /\ \E state \in AISnapshots : game' = loadState(game, state)
    /\ result' = Call("loadState", Returned(NoStatus))
    /\ UNCHANGED << gen, rng, now, ai, heap, page, server >>

\* the user's half-move
UserMove ==
    /\ result.op = "loadState"
    /\ \E fromIndex \in Cells :
          \E toIndex \in ToIndexes(game, fromIndex) :
             LET call == makeMove(game, fromIndex, toIndex, now)
             IN /\ game' = call.game
                /\ result' = Call("makeMove", call.ret)
    /\ UNCHANGED << gen, rng, now, ai, heap, page, server >>

\* ai.findBestMove(game)
FindBestMove ==
    /\ result.op \in {"loadState", "makeMove"}
    /\ \E run \in {findBestMove(ai, game, rng)} :
          /\ game' = run.game
          /\ rng' = run.rng
          /\ result' = Found(run)
    /\ UNCHANGED << gen, now, ai, heap, page, server >>

\* makeAIMove: game.makeMove(move.from, move.to) for the move findBestMove returned
PlayBestMove ==
    /\ result.op = "findBestMove"
    /\ result.best # NoMove
    /\ ~game.gameOver
    /\ LET call == makeMove(game, result.best.from, result.best.to, now)
       IN /\ game' = call.game
          /\ result' = Call("makeAIMove", call.ret)
    /\ UNCHANGED << gen, rng, now, ai, heap, page, server >>

NextAI == AILoadState \/ UserMove \/ FindBestMove \/ PlayBestMove

SpecAI == InitAI /\ [][NextAI]_vars

(* ------------------------------------------------------------------ *)
(* A game played from a generated position, never loaded               *)
(* ------------------------------------------------------------------ *)

\* makeMove reads toIndex only to look it up among getValidMoves(fromIndex): the
\* destinations of the valid moves, and fromIndex itself, which is never one of them and
\* stands for every other cell
PlayToIndexes(g, fromIndex) == Targets(getValidMoves(g, fromIndex)) \cup {fromIndex}

\* the cells makeMove is called on: those of the columns a to e
PlayFromIndexes == {i \in Cells : getCol(i) \in 0 .. 4}

PlayMove ==
    /\ result.op # "new"
    /\ Len(game.moveHistory) < MaxPlayPlies
    /\ \E fromIndex \in PlayFromIndexes :
          \E toIndex \in PlayToIndexes(game, fromIndex) :
             LET call == makeMove(game, fromIndex, toIndex, now)
             IN /\ game' = call.game
                /\ result' = Call("makeMove", call.ret)
    /\ UNCHANGED << gen, rng, now, ai, heap, page, server >>

NextPlay == GenerateStartingPosition \/ PlayMove

SpecPlay == Init /\ [][NextPlay]_vars

(* ------------------------------------------------------------------ *)
(* A game that ends by a move, and the calls made on it afterwards     *)
(* ------------------------------------------------------------------ *)

\* the positions Cornered and CorneredInCheck as snapshots without clock fields
EndPositions ==
    {[state EXCEPT !.whiteTime = Undefined, !.blackTime = Undefined,
                   !.timeControl = Undefined] : state \in {Cornered, CorneredInCheck}}

EndLoadState ==
    /\ result.op = "new"
    /\ \E state \in EndPositions : game' = loadState(game, state)
    /\ result' = Call("loadState", Returned(NoStatus))
    /\ UNCHANGED << gen, rng, now, ai, heap, page, server >>

\* the cells makeMove is called with: from e5 (white knight) and g5 (white pawn), to g6
\* (from Cornered the knight mates there and the pawn stalemates) and d3 (a knight move
\* that ends nothing, unless the white king was in check)
EndFromIndexes == {36, 38}

EndToIndexes == {46, 19}

EndMove ==
    /\ result.op # "new"
    /\ Len(game.moveHistory) < MaxOpsPlies
    /\ \E fromIndex \in EndFromIndexes :
          \E toIndex \in EndToIndexes :
             LET call == makeMove(game, fromIndex, toIndex, now)
             IN /\ game' = call.game
                /\ result' = Call("makeMove", call.ret)
    /\ UNCHANGED << gen, rng, now, ai, heap, page, server >>

NextEnd ==
    \/ EndLoadState
    \/ Tick
    \/ StartTimer
    \/ UpdateTime
    \/ CheckTimeout
    \/ GetState
    \/ GetTimeRemaining
    \/ Resign
    \/ EndMove

SpecEnd == InitClock /\ [][NextEnd]_vars

(* ------------------------------------------------------------------ *)
(* Captures by every kind of piece                                     *)
(* ------------------------------------------------------------------ *)

\* white: Ka1 Nb1 Bc1 Pa2 Pc4 Pe5, black: Ke8 Bf8 Ng8 Pd4 Pd5 Pf6
MinorPieces ==
    << <<0, "K">>, <<1, "N">>, <<2, "B">>, <<8, "P">>, <<26, "P">>, <<36, "P">>,
       <<60, "k">>, <<61, "b">>, <<62, "n">>, <<27, "p">>, <<35, "p">>, <<45, "p">> >>

\* white: Ka1 Qd1 Rh1 Ph2, black: Ke8 Qd8 Ra8 Pa7
MajorPieces ==
    << <<0, "K">>, <<3, "Q">>, <<7, "R">>, <<15, "P">>,
       <<60, "k">>, <<59, "q">>, <<56, "r">>, <<48, "p">> >>

\* the first position with white to move after d7-d5 (e5xd6 en passant is offered) and
\* with black to move after c2-c4 (d4xc3 en passant is offered); the second position
\* with either side to move
MaterialSnapshots ==
    {[Snapshot(MinorPieces, "white", 41)
        EXCEPT !.enPassantTarget = 43, !.lastMove = [from |-> 51, to |-> 35]],
     [Snapshot(MinorPieces, "black", 42)
        EXCEPT !.enPassantTarget = 18, !.lastMove = [from |-> 10, to |-> 26]],
     Snapshot(MajorPieces, "white", 41),
     Snapshot(MajorPieces, "black", 42)}

MaterialLoadState ==
    /\ result.op = "new"
    /\ \E state \in MaterialSnapshots : game' = loadState(game, state)
    /\ result' = Call("loadState", Returned(NoStatus))
    /\ UNCHANGED << gen, rng, now, ai, heap, page, server >>

MaterialMove ==
    /\ result.op # "new"
    /\ Len(game.moveHistory) < MaxMaterialPlies
    /\ \E fromIndex \in Cells :
          \E toIndex \in PlayToIndexes(game, fromIndex) :
             LET call == makeMove(game, fromIndex, toIndex, now)
             IN /\ game' = call.game
                /\ result' = Call("makeMove", call.ret)
    /\ UNCHANGED << gen, rng, now, ai, heap, page, server >>

NextMaterial == MaterialLoadState \/ MaterialMove

SpecMaterial == Init /\ [][NextMaterial]_vars

(* ------------------------------------------------------------------ *)
(* Games and the snapshots they exchange: which object holds which array*)
(* ------------------------------------------------------------------ *)

\* the game g, the snapshot s = g.getState(), and the games h and h2 that load s
ShareNames == {"g", "s", "h", "h2"}

ShareGames == {"g", "h", "h2"}

\* a name not yet bound to an object
NoObject == [fields |-> << >>, board |-> 0, moveHistory |-> 0]

\* the fields of an object other than its two arrays, which are held in heap.arrays
Store(fields) == [fields EXCEPT !.board = << >>, !.moveHistory = << >>]

\* the object o with its arrays read through its references
Deref(h, o) ==
    [o.fields EXCEPT !.board = h.arrays[o.board], !.moveHistory = h.arrays[o.moveHistory]]

\* the board and the moveHistory seen through the object named name
Contents(h, name) ==
    [board |-> h.arrays[h.objects[name].board],
     moveHistory |-> h.arrays[h.objects[name].moveHistory]]

\* the pieces generateStartingPosition left on the board of g (white: Ka1 Pe2, black: Kh8)
SharePieces == << <<0, "K">>, <<12, "P">>, <<63, "k">> >>

\* g is a new untimed game with its pieces placed: it holds its board (array 1) and its
\* empty moveHistory (array 2)
InitShare ==
    /\ game = NewGame(10)
    /\ result = Call("new", Returned(NoStatus))
    /\ gen = [GenEntry EXCEPT !.pc = "idle"]
    /\ rng = 0
    /\ now = ClockStart
    /\ ai = NoAI
    /\ heap = [arrays |-> << BoardOf(SharePieces), << >> >>,
               objects |-> [name \in ShareNames |->
                              IF name = "g"
                              THEN [fields |-> Store(NewGame(0)), board |-> 1,
                                    moveHistory |-> 2]
                              ELSE NoObject]]
    /\ page = NoPage
    /\ server = NoServer

\* s = g.getState(): `[...this.board]` and `[...this.moveHistory]` are new arrays
ShareGetState ==
    /\ heap.objects["s"] = NoObject
    /\ LET g == heap.objects["g"]
           call == getState(Deref(heap, g), now)
           n == Len(heap.arrays)
       IN heap' = [arrays |-> heap.arrays \o << call.state.board, call.state.moveHistory >>,
                   objects |-> [heap.objects EXCEPT
                                  !["g"] = [g EXCEPT !.fields = Store(call.game)],
                                  !["s"] = [fields |-> Store(call.state), board |-> n + 1,
                                            moveHistory |-> n + 2]]]
    /\ UNCHANGED << game, result, gen, rng, now, ai, page, server >>

\* name = new KalasRandomChess(); name.loadState(s): `[...state.board]` is a new array,
\* `state.moveHistory || []` is the array of the snapshot (an array is never falsy)
ShareLoadState ==
    /\ heap.objects["s"] # NoObject
    /\ \E name \in {"h", "h2"} :
          /\ heap.objects[name] = NoObject
          /\ LET s == heap.objects["s"]
                 loaded == loadState(NewGame(0), Deref(heap, s))
                 n == Len(heap.arrays)
             IN heap' = [arrays |-> Append(heap.arrays, loaded.board),
                         objects |-> [heap.objects EXCEPT
                                        ![name] = [fields |-> Store(loaded), board |-> n + 1,
                                                   moveHistory |-> s.moveHistory]]]
    /\ UNCHANGED << game, result, gen, rng, now, ai, page, server >>

\* name.makeMove(fromIndex, toIndex): `this.board[...] = ...` and `this.moveHistory.push`
\* write into the arrays the game holds
ShareMakeMove(name, fromIndex, toIndex) ==
    /\ heap.objects[name] # NoObject
    /\ LET o == heap.objects[name]
           call == makeMove(Deref(heap, o), fromIndex, toIndex, now)
       IN /\ Len(heap.arrays[o.moveHistory]) < MaxSharePlies
          /\ heap' = [arrays |-> [heap.arrays EXCEPT ![o.board] = call.game.board,
                                                     ![o.moveHistory] = call.game.moveHistory],
                      objects |-> [heap.objects EXCEPT
                                     ![name] = [o EXCEPT !.fields = Store(call.game)]]]
          /\ result' = Call("makeMove", call.ret)
    /\ UNCHANGED << game, gen, rng, now, ai, page, server >>

\* the cells makeMove is called from: e2 (white pawn), h8 (black king)
ShareFromIndexes == {12, 63}

ShareMoveOf(name) ==
    \E fromIndex \in ShareFromIndexes :
       \E toIndex \in PlayToIndexes(Deref(heap, heap.objects[name]), fromIndex) :
          ShareMakeMove(name, fromIndex, toIndex)

ShareMove == \E name \in ShareGames : heap.objects[name] # NoObject /\ ShareMoveOf(name)

NextShare == ShareGetState \/ ShareLoadState \/ ShareMove

SpecShare == InitShare /\ [][NextShare]_vars

(* ------------------------------------------------------------------ *)
(* main.js: a page playing against the AI                               *)
(* ------------------------------------------------------------------ *)

\* the difficulty the user picks before startAIGame
PageDifficulties == {"easy"}

\* the seeds of Math.random() on the page: from these, every call of findBestMove in the
\* games below draws a value under 0.3 first, so that the easy AI returns a random move
\* of getAllMoves and builds no search tree over a full starting position
PageSeeds == {36, 44}

\* the step by which Date.now() is seen to advance on the page
PageTickMs == 300

\* minDelay of makeAIMove
minDelay(aiDifficulty) ==
    IF aiDifficulty = "easy" THEN 300 ELSE IF aiDifficulty = "medium" THEN 500 ELSE 800

\* the globals on the menu screen; games holds every KalasRandomChess object constructed
\* so far and `game` refers to one of them by its position (0 for null); pending holds the
\* calls of makeAIMove suspended at their await: the object the move was searched on, the
\* move, the time the delay ends, and what black's clock showed when the search began
InitPage ==
    /\ game = NewGame(10)
    /\ result = Call("new", Returned(NoStatus))
    /\ gen = [GenEntry EXCEPT !.pc = "idle"]
    /\ rng \in PageSeeds
    /\ now = ClockStart
    /\ ai = NoAI
    /\ heap = NoHeap
    /\ page = [games |-> << >>, game |-> 0, isAIGame |-> FALSE, aiDifficulty |-> "medium",
               selectedTimeControl |-> 10, aiThinking |-> FALSE, timerInterval |-> FALSE,
               pending |-> {}]
    /\ server = NoServer

\* the game the global `game` refers to
PageGame(p) == p.games[p.game]

\* handleGameEnd(status), as far as the globals go
handleGameEnd(p) == [p EXCEPT !.timerInterval = FALSE, !.aiThinking = FALSE]

\* on the menu screen the user picks a difficulty (aiDifficulty is set) and starts the
\* game: startAIGame()
StartAIGame ==
    /\ page.game = 0
    /\ Len(page.games) < MaxGames
    /\ \E difficulty \in PageDifficulties :
          LET run == generateStartingPosition(GenEntry, rng)
              created == [NewGame(page.selectedTimeControl) EXCEPT !.board = run.locals.board]
          IN /\ page' = [page EXCEPT !.aiDifficulty = difficulty,
                                     !.isAIGame = TRUE,
                                     !.games = Append(page.games, startTimer(created, now)),
                                     !.game = Len(page.games) + 1,
                                     !.timerInterval = TRUE]
             /\ ai' = ChessAI(difficulty)
             /\ rng' = run.rng
    /\ result' = Call("startAIGame", Returned(NoStatus))
    /\ UNCHANGED << game, gen, now, heap, server >>

\* the cells the user moves from: the files a to c
PageFromIndexes == {i \in Cells : getCol(i) \in 0 .. 2}

\* the user clicks a piece and one of its valid moves: boardUI.makeMove, then the onMove
\* callback, which ends the game or calls makeAIMove(); makeAIMove runs up to its await:
\* the search is done and the delay of minDelay is started
PageUserMove ==
    /\ page.game # 0
    /\ ~PageGame(page).gameOver
    /\ PageGame(page).currentTurn = "white"
    /\ Len(PageGame(page).moveHistory) < MaxPagePlies
    /\ \E fromIndex \in PageFromIndexes :
          \E toIndex \in Targets(getValidMoves(PageGame(page), fromIndex)) :
             \E call \in {makeMove(PageGame(page), fromIndex, toIndex, now)} :
                /\ result' = Call("makeMove", call.ret)
                /\ IF ~call.ret.success
                   THEN /\ page' = [page EXCEPT !.games[page.game] = call.game]
                        /\ rng' = rng
                   ELSE IF call.ret.gameStatus.gameOver
                   THEN /\ page' = handleGameEnd([page EXCEPT !.games[page.game] = call.game])
                        /\ rng' = rng
                   ELSE IF ~page.isAIGame \/ call.game.currentTurn # "black"
                   THEN /\ page' = [page EXCEPT !.games[page.game] = call.game]
                        /\ rng' = rng
                   ELSE \E run \in {findBestMove(ai, call.game, rng)} :
                           /\ page' = [page EXCEPT
                                         !.games[page.game] = run.game,
                                         !.aiThinking = TRUE,
                                         !.pending = page.pending \cup
                                            {[searched |-> page.game, move |-> run.move,
                                              due |-> now + minDelay(page.aiDifficulty),
                                              blackTime |-> run.game.blackTime]}]
                           /\ rng' = run.rng
    /\ UNCHANGED << game, gen, now, ai, heap, server >>

\* the continuation p reaches `game.makeMove(move.from, move.to)`: the global `game` is
\* not null (`game.gameOver` throws otherwise, and the catch logs it), a move was found
\* and the game is not over
IssuesMakeMove(p) == page.game # 0 /\ p.move # NoMove /\ ~PageGame(page).gameOver

\* the delay of the suspended makeAIMove p ends: the function runs from its await to its end
MakeAIMoveResumeOf(p) ==
    /\ p \in page.pending
    /\ p.due <= now
    /\ \A q \in page.pending : p.due <= q.due
    /\ IF IssuesMakeMove(p)
       THEN \E call \in {makeMove(PageGame(page), p.move.from, p.move.to, now)} :
               LET played == [page EXCEPT !.games[page.game] = call.game,
                                          !.pending = page.pending \ {p}]
               IN /\ result' = Call("makeAIMove", call.ret)
                  /\ page' = IF call.ret.success /\ call.ret.gameStatus.gameOver
                             THEN handleGameEnd(played)
                             ELSE [played EXCEPT !.aiThinking = FALSE]
       ELSE /\ result' = result
            /\ page' = [page EXCEPT !.aiThinking = FALSE, !.pending = page.pending \ {p}]
    /\ UNCHANGED << game, gen, rng, now, ai, heap, server >>

MakeAIMoveResume == \E p \in page.pending : MakeAIMoveResumeOf(p)

\* the callback of setInterval in startTimerInterval
TimerInterval ==
    /\ page.timerInterval
    /\ IF page.game = 0 \/ PageGame(page).gameOver
       THEN page' = [page EXCEPT !.timerInterval = FALSE]
       ELSE IF page.isAIGame /\ page.aiThinking /\ PageGame(page).currentTurn = "black"
       THEN page' = page
       ELSE LET call == checkTimeout(updateTime(PageGame(page), now), now)
            IN page' = IF call.status # NoStatus
                       THEN handleGameEnd([page EXCEPT !.games[page.game] = call.game])
                       ELSE [page EXCEPT !.games[page.game] = call.game]
    /\ UNCHANGED << game, result, gen, rng, now, ai, heap, server >>

\* resignGame(), the user confirming
ResignGame ==
    /\ page.game # 0
    /\ ~PageGame(page).gameOver
    /\ LET call == resign(PageGame(page),
                          IF page.isAIGame THEN "white" ELSE PageGame(page).currentTurn)
       IN /\ page' = handleGameEnd([page EXCEPT !.games[page.game] = call.game])
          /\ result' = Call("resign", Returned(call.status))
    /\ UNCHANGED << game, gen, rng, now, ai, heap, server >>

\* returnToMenu(), from the game screen
ReturnToMenu ==
    /\ page.game # 0
    /\ page' = [page EXCEPT !.game = 0, !.isAIGame = FALSE, !.aiThinking = FALSE,
                            !.timerInterval = FALSE]
    /\ ai' = NoAI
    /\ UNCHANGED << game, result, gen, rng, now, heap, server >>

PageTick ==
    /\ now + PageTickMs <= ClockStart + MaxPageTicks * PageTickMs
    /\ now' = now + PageTickMs
    /\ UNCHANGED << game, result, gen, rng, ai, heap, page, server >>

NextPage ==
    \/ StartAIGame
    \/ PageUserMove
    \/ MakeAIMoveResume
    \/ TimerInterval
    \/ ResignGame
    \/ ReturnToMenu
    \/ PageTick

SpecPage == InitPage /\ [][NextPage]_vars

(* ------------------------------------------------------------------ *)
(* server.js: one game between two sockets                              *)
(* ------------------------------------------------------------------ *)

\* the position of the game on the server some moves in (white: Kb1 Ra2, black: Kh8 Pg7
\* Ph7), white to move with captures allowed: Ra2-a8 is checkmate. moveHistory, which no
\* handler of the server reads, is left empty
ServerPosition ==
    Snapshot(<< <<1, "K">>, <<8, "R">>, <<63, "k">>, <<54, "p">>, <<55, "p">> >>,
             "white", 41)

\* the cells of the 'makeMove' events: from a2 (rook) and h8 (king), to a8 (checkmate),
\* a3 and g8
ServerFromIndexes == {8, 63}

ServerToIndexes == {56, 16, 62}

\* setTimeout(..., 60000) of the disconnect handler, and its clean-up delay
ReconnectWindowMs == 60000

CleanupDelayMs == 120000

\* the step by which Date.now() is seen to advance on the server: the clock of a
\* one-minute game, and the time left to reconnect
ServerTickMs == 60000

\* no timer is pending in gameData.reconnectTimeout
NoTimeout == [armed |-> FALSE, due |-> 0, playerColor |-> Null, socket |-> 0]

\* sockets 1 and 2 are connected; socket 1 created the game and socket 2 joined it (1 got
\* white); the game is being played, its clock and the interval of startGameTimer run.
\* results lists the winners processGameResult was called with
InitServer ==
    /\ game = NewGame(10)
    /\ result = Call("new", Returned(NoStatus))
    /\ gen = [GenEntry EXCEPT !.pc = "idle"]
    /\ rng = 0
    /\ now = ClockStart
    /\ ai = NoAI
    /\ heap = NoHeap
    /\ page = NoPage
    /\ \E timeControl \in TimeControls :
          \E registered \in {{}, {1, 2}} :
             server = [gameData |->
                          [game |-> startTimer(loadState(NewGame(timeControl),
                                       [ServerPosition EXCEPT !.whiteTime = Undefined,
                                                              !.blackTime = Undefined,
                                                              !.timeControl = Undefined]),
                                       ClockStart),
                           white |-> 1,
                           black |-> 2,
                           state |-> "playing",
                           disconnectedPlayer |-> Null,
                           reconnectTimeout |-> NoTimeout],
                       playerGames |-> {1, 2},
                       playerInfo |-> registered,
                       timerInterval |-> TRUE,
                       connected |-> {1, 2},
                       sockets |-> 2,
                       cleanups |-> {},
                       results |-> << >>]

\* `gameData.white === socket.id ? 'white' : 'black'`
PlayerColor(gameData, socket) == IF gameData.white = socket THEN "white" ELSE "black"

\* processGameResult(gameData, winner) is called
processGameResult(srv, winner) == [srv EXCEPT !.results = Append(srv.results, winner)]

\* io.on('connection'): a socket with a new id
Connect ==
    /\ server.sockets < MaxSockets
    /\ server' = [server EXCEPT !.sockets = server.sockets + 1,
                                !.connected = server.connected \cup {server.sockets + 1}]
    /\ UNCHANGED << game, result, gen, rng, now, ai, heap, page >>

\* socket.on('registerPlayer') with a userId and a username, from a socket that connected
\* after the game began
RegisterPlayer ==
    /\ \E socket \in server.connected \ (server.playerInfo \cup {1, 2}) :
          server' = [server EXCEPT !.playerInfo = server.playerInfo \cup {socket}]
    /\ UNCHANGED << game, result, gen, rng, now, ai, heap, page >>

\* socket.on('makeMove') for the game, from `socket`
MakeMoveEvent(socket, fromIndex, toIndex) ==
    /\ socket \in server.connected
    /\ Len(server.gameData.game.moveHistory) < MaxServerPlies
    /\ LET gameData == server.gameData
           playerColor == PlayerColor(gameData, socket)
           call == makeMove(updateTime(gameData.game, now), fromIndex, toIndex, now)
           played == getState([call.game EXCEPT !.lastTimestamp = now], now).game
           winner == IF call.ret.gameStatus.result = "stalemate" THEN "draw"
                     ELSE call.ret.gameStatus.winner
       IN IF gameData.state # "playing"
          THEN /\ server' = server
               /\ result' = Call("makeMove", Failure("Game not in progress"))
          ELSE IF gameData.game.currentTurn # playerColor
          THEN /\ server' = server
               /\ result' = Call("makeMove", Failure("Not your turn"))
          ELSE IF ~call.ret.success
          THEN /\ server' = [server EXCEPT !.gameData.game = call.game]
               /\ result' = Call("makeMove", call.ret)
          ELSE /\ result' = Call("makeMove", call.ret)
               /\ server' = IF call.ret.gameStatus.gameOver
                            THEN processGameResult(
                                    [server EXCEPT !.gameData.game = played,
                                                   !.gameData.state = "finished",
                                                   !.timerInterval = FALSE],
                                    winner)
                            ELSE [server EXCEPT !.gameData.game = played]
    /\ UNCHANGED << game, gen, rng, now, ai, heap, page >>

MakeMoveFrom(socket) ==
    \E fromIndex \in ServerFromIndexes :
       \E toIndex \in ServerToIndexes : MakeMoveEvent(socket, fromIndex, toIndex)

MakeMoveEvents == \E socket \in server.connected : MakeMoveFrom(socket)

\* socket.on('timeout') for the game
TimeoutEvent ==
    /\ \E socket \in server.connected :
          LET call == checkTimeout(server.gameData.game, now)
          IN server' = IF server.gameData.state # "playing" THEN server
                       ELSE IF call.status # NoStatus
                       THEN [server EXCEPT !.gameData.game = call.game,
                                           !.gameData.state = "finished",
                                           !.timerInterval = FALSE]
                       ELSE [server EXCEPT !.gameData.game = call.game]
    /\ UNCHANGED << game, result, gen, rng, now, ai, heap, page >>

\* socket.on('resign') for the game, from `socket`
ResignEvent(socket) ==
    /\ socket \in server.connected
    /\ LET gameData == server.gameData
           playerColor == PlayerColor(gameData, socket)
           resigned == getState(resign(gameData.game, playerColor).game, now).game
       IN server' = IF gameData.state # "playing" THEN server
                    ELSE processGameResult(
                            [server EXCEPT !.gameData.game = resigned,
                                           !.gameData.state = "finished",
                                           !.timerInterval = FALSE],
                            Opponent(playerColor))
    /\ UNCHANGED << game, result, gen, rng, now, ai, heap, page >>

ResignEvents == \E socket \in server.connected : ResignEvent(socket)

\* socket.on('reconnectGame') for the game, from `socket`
ReconnectGame ==
    /\ \E socket \in server.connected :
          LET gameData == server.gameData
              resumed == getState([gameData.game EXCEPT !.lastTimestamp = now], now).game
          IN server' =
                IF gameData.state # "paused" THEN server
                ELSE IF gameData.disconnectedPlayer \notin {"white", "black"} THEN server
                ELSE [server EXCEPT
                        !.gameData =
                           [gameData EXCEPT
                              !.white = IF gameData.disconnectedPlayer = "white"
                                        THEN socket ELSE gameData.white,
                              !.black = IF gameData.disconnectedPlayer = "white"
                                        THEN gameData.black ELSE socket,
                              !.reconnectTimeout = NoTimeout,
                              !.state = "playing",
                              !.disconnectedPlayer = Null,
                              !.game = resumed],
                        !.playerGames = server.playerGames \cup {socket},
                        !.timerInterval = TRUE]
    /\ UNCHANGED << game, result, gen, rng, now, ai, heap, page >>

\* socket.on('disconnect') of `socket`; its second setTimeout is kept only for a socket
\* with an entry in playerInfo (for any other its callback deletes nothing)
DisconnectOf(socket) ==
    /\ socket \in server.connected
    /\ LET gameData == server.gameData
           playerColor == PlayerColor(gameData, socket)
           left == [server EXCEPT
                      !.connected = server.connected \ {socket},
                      !.playerGames = server.playerGames \ {socket},
                      !.cleanups = server.cleanups \cup
                                      IF socket \in server.playerInfo
                                      THEN {[socket |-> socket, due |-> now + CleanupDelayMs]}
                                      ELSE {}]
       IN server' =
             IF socket \in server.playerGames /\ gameData.state = "playing"
             THEN [left EXCEPT
                     !.timerInterval = FALSE,
                     !.gameData =
                        [gameData EXCEPT
                           !.game = updateTime(gameData.game, now),
                           !.disconnectedPlayer = playerColor,
                           !.state = "paused",
                           !.reconnectTimeout =
                              [armed |-> TRUE, due |-> now + ReconnectWindowMs,
                               playerColor |-> playerColor, socket |-> socket]]]
             ELSE left
    /\ UNCHANGED << game, result, gen, rng, now, ai, heap, page >>

Disconnect == \E socket \in server.connected : DisconnectOf(socket)

\* the callback of the setTimeout of the disconnect handler
ForfeitTimeout ==
    /\ server.gameData.reconnectTimeout.armed
    /\ server.gameData.reconnectTimeout.due <= now
    /\ LET gameData == server.gameData
           winner == Opponent(gameData.reconnectTimeout.playerColor)
           fired == [server EXCEPT !.gameData.reconnectTimeout.armed = FALSE]
       IN server' =
             IF gameData.state = "paused"
             THEN processGameResult(
                     [fired EXCEPT !.gameData.state = "finished",
                                   !.gameData.game.gameOver = TRUE,
                                   !.gameData.game.winner = winner],
                     winner)
             ELSE fired
    /\ UNCHANGED << game, result, gen, rng, now, ai, heap, page >>

\* the callback of the second setTimeout of the disconnect handler
CleanupPlayerInfo ==
    /\ \E cleanup \in server.cleanups :
          /\ cleanup.due <= now
          /\ server' = [server EXCEPT
                          !.cleanups = server.cleanups \ {cleanup},
                          !.playerInfo = IF cleanup.socket \in server.playerGames
                                         THEN server.playerInfo
                                         ELSE server.playerInfo \ {cleanup.socket}]
    /\ UNCHANGED << game, result, gen, rng, now, ai, heap, page >>

\* the callback of the setInterval of startGameTimer
GameTimer ==
    /\ server.timerInterval
    /\ LET gameData == server.gameData
           call == checkTimeout(updateTime(gameData.game, now), now)
       IN server' =
             IF gameData.state # "playing" THEN [server EXCEPT !.timerInterval = FALSE]
             ELSE IF call.status # NoStatus
             THEN processGameResult(
                     [server EXCEPT !.gameData.game = call.game,
                                    !.gameData.state = "finished",
                                    !.timerInterval = FALSE],
                     call.status.winner)
             ELSE [server EXCEPT !.gameData.game = call.game]
    /\ UNCHANGED << game, result, gen, rng, now, ai, heap, page >>

\* the clock of the side to move runs and has time left at Date.now()
ClockRunsDown(g) ==
    /\ ~isUntimed(g)
    /\ g.timerRunning
    /\ (IF g.currentTurn = "white" THEN g.whiteTime ELSE g.blackTime) > now - g.lastTimestamp

\* Date.now() advances, as long as the forfeit is still to come or the clock of the game
\* being played can still run out
ServerTick ==
    /\ \/ now + ServerTickMs <= ClockStart + MaxServerTicks * ServerTickMs
       \/ server.gameData.reconnectTimeout.armed /\ now < server.gameData.reconnectTimeout.due
       \/ server.gameData.state = "playing" /\ ClockRunsDown(server.gameData.game)
    /\ now' = now + ServerTickMs
    /\ UNCHANGED << game, result, gen, rng, ai, heap, page, server >>

NextServer ==
    \/ Connect
    \/ RegisterPlayer
    \/ MakeMoveEvents
    \/ TimeoutEvent
    \/ ResignEvents
    \/ ReconnectGame
    \/ Disconnect
    \/ ForfeitTimeout
    \/ CleanupPlayerInfo
    \/ GameTimer
    \/ ServerTick

SpecServer == InitServer /\ [][NextServer]_vars

\* timers fire and time passes; no socket has to send anything
SpecServerLive ==
    /\ SpecServer
    /\ WF_vars(ServerTick)
    /\ WF_vars(ForfeitTimeout)
    /\ WF_vars(GameTimer)

(* ------------------------------------------------------------------ *)
(* Properties                                                          *)
(* ------------------------------------------------------------------ *)

\* the cells of board b that hold `piece`
CellsOf(b, piece) == {i \in Cells : b[i] = piece}

\* the number of occupied cells of board b
Occupied(b) == Cardinality({i \in Cells : b[i] # Null})

\* the last call was a makeMove that succeeded
Moved == result.op = "makeMove" /\ result.success

\* C1: makeMove(from, to) returns success:false with the matching error and leaves every
\* field of the Game unchanged whenever `from` is an empty cell ('No piece at source'),
\* holds a piece of the side not to move ('Not your turn'), or `to` is not a destination
\* of getValidMoves(from) ('Invalid move').
C1_FailedMoveChangesNothing ==
    \A fromIndex \in Cells :
        LET destinations == Targets(getValidMoves(game, fromIndex))
        IN \A toIndex \in Cells :
              LET call == makeMove(game, fromIndex, toIndex, now)
                  expected ==
                      IF game.board[fromIndex] = Null THEN "No piece at source"
                      ELSE IF (game.board[fromIndex] \in WhitePieces)
                              # (game.currentTurn = "white")
                           THEN "Not your turn"
                      ELSE IF toIndex \notin destinations THEN "Invalid move"
                      ELSE Null
              IN expected # Null =>
                    /\ ~call.ret.success
                    /\ call.ret.error = expected
                    /\ call.game = game

\* a makeMove call was rejected as an invalid move of a piece of the side to move
C1_Witness ==
    /\ result.op = "makeMove"
    /\ ~result.success
    /\ result.error = "Invalid move"
    /\ Len(game.moveHistory) > 0

\* C2 (as claimed): once gameOver is true, every later makeMove call is rejected with
\* success:false and mutates nothing.
C2_NoMoveAfterGameOver ==
    [][ (game.gameOver /\ result'.op = "makeMove") => (~result'.success /\ game' = game) ]_vars

\* C3: if after a successful makeMove the mover's own king is attacked, the game is over
\* with result 'left-in-check' and the opponent of the mover as winner, whatever else the
\* move brought about.
C3_LeftInCheckLoses ==
    (Moved /\ isInCheck(game.board, Opponent(game.currentTurn))) =>
        /\ game.gameOver
        /\ game.winner = game.currentTurn
        /\ result.gameStatus.gameOver
        /\ result.gameStatus.result = "left-in-check"
        /\ result.gameStatus.winner = game.currentTurn

\* the mover left the own king in check by a move that also left the opponent in check
\* without a legal move
C3_Witness ==
    /\ Moved
    /\ result.gameStatus.result = "left-in-check"
    /\ isInCheck(game.board, Opponent(game.currentTurn))
    /\ isInCheck(game.board, game.currentTurn)
    /\ ~hasValidMoves(game, game.currentTurn)

\* C4: every successful makeMove flips currentTurn, adds exactly 1 to turnCount, and adds
\* exactly 1 to moveNumber if the mover was black and nothing if the mover was white.
C4_TurnAndCounters ==
    [][ (result'.op = "makeMove" /\ result'.success) =>
          /\ game'.currentTurn # game.currentTurn
          /\ game'.currentTurn \in {"white", "black"}
          /\ game'.turnCount = game.turnCount + 1
          /\ game'.moveNumber = game.moveNumber + (IF game.currentTurn = "black" THEN 1 ELSE 0)
      ]_vars

\* black has made a move, after a move of white
C4_Witness ==
    /\ Moved
    /\ result.move.piece \in BlackPieces
    /\ game.currentTurn = "white"
    /\ Len(game.moveHistory) >= 2

\* C5: after a successful makeMove that did not leave the mover's king in check: when the
\* new side to move has no destination for any of its pieces the status is 'checkmate'
\* with the mover as winner if that side's king is attacked and 'stalemate' with no
\* winner if it is not, and gameOver is true; when it has a move the status is not
\* gameOver and reports inCheck exactly when that side's king is attacked, and a game that
\* was not over is still not over.
C5_TerminationStatus ==
    [][ (result'.op = "makeMove" /\ result'.success
         /\ ~isInCheck(game'.board, game.currentTurn)) =>
          LET side == game'.currentTurn
              mover == game.currentTurn
              attacked == isInCheck(game'.board, side)
              noMoves == \A i \in Cells :
                             game'.board[i] \in (IF side = "white" THEN WhitePieces
                                                 ELSE BlackPieces)
                                 => getValidMoves(game', i) = << >>
              status == result'.gameStatus
          IN /\ (noMoves /\ attacked) =>
                   /\ game'.gameOver /\ status.gameOver
                   /\ status.result = "checkmate"
                   /\ status.winner = mover /\ game'.winner = mover
             /\ (noMoves /\ ~attacked) =>
                   /\ game'.gameOver /\ status.gameOver
                   /\ status.result = "stalemate"
                   /\ status.winner = Null
                   /\ (~game.gameOver => game'.winner = Null)
             /\ ~noMoves =>
                   /\ ~status.gameOver
                   /\ status.result = Null
                   /\ status.inCheck = attacked
                   /\ (~game.gameOver => ~game'.gameOver)
      ]_vars

\* a move has checkmated the side to move
C5_Witness ==
    /\ Moved
    /\ result.gameStatus.result = "checkmate"
    /\ game.gameOver
    /\ isInCheck(game.board, game.currentTurn)
    /\ ~isInCheck(game.board, Opponent(game.currentTurn))

\* C6: while turnCount is 1, 2 or 3, getValidMoves returns no move with isCapture for any
\* cell, and no successful makeMove of these half-moves removes a piece from the board;
\* from turnCount 4 on getValidMoves returns every move of the piece generators.
C6_CaptureRestriction ==
    [][ /\ (game' # game /\ game'.turnCount \in 1 .. 3) =>
              \A i \in Cells : \A k \in 1 .. Len(getValidMoves(game', i)) :
                 ~getValidMoves(game', i)[k].isCapture
        /\ (game' # game /\ game'.turnCount >= 4) =>
              \A i \in Cells :
                 (game'.board[i] # Null /\ getPieceColor(game'.board[i]) = game'.currentTurn)
                    => getValidMoves(game', i) = GeneratedMoves(game', i)
        /\ (result'.op = "makeMove" /\ result'.success /\ game.turnCount \in 1 .. 3) =>
              /\ Occupied(game'.board) = Occupied(game.board)
              /\ result'.move.captured = Null
      ]_vars

\* in one of the first three half-moves, after a move, a piece of the side to move could
\* capture by its movement pattern
C6_Witness ==
    /\ Moved
    /\ game.turnCount \in 2 .. 3
    /\ \E i \in Cells :
          /\ game.board[i] # Null
          /\ getPieceColor(game.board[i]) = game.currentTurn
          /\ \E k \in 1 .. Len(GeneratedMoves(game, i)) : GeneratedMoves(game, i)[k].isCapture

\* C7: in every state of a game that has a position and is not over, the board has
\* exactly 64 cells, exactly one white king and exactly one black king.
C7_OneKingEach ==
    (result.op # "new" /\ ~game.gameOver) =>
        /\ DOMAIN game.board = Cells
        /\ Cardinality(CellsOf(game.board, WHITE_KING)) = 1
        /\ Cardinality(CellsOf(game.board, BLACK_KING)) = 1

\* a piece was captured and the game goes on
C7_Witness ==
    /\ Moved
    /\ result.move.captured # Null
    /\ ~game.gameOver

\* C8: generateStartingPosition ends with exactly 32 occupied cells, per colour 1 king,
\* 8 pawns, 1 queen, 2 rooks, 2 bishops and 2 knights; no placement overwrites an earlier
\* one and no pick is made from an empty zone.
C8_SixteenPerSide ==
    /\ ~gen.overwrote
    /\ ~gen.pickedFromEmpty
    /\ gen.pc = "done" =>
          /\ Occupied(game.board) = 32
          /\ \A piece \in {"K", "k", "Q", "q"} : Cardinality(CellsOf(game.board, piece)) = 1
          /\ \A piece \in {"R", "r", "B", "b", "N", "n"} :
                Cardinality(CellsOf(game.board, piece)) = 2
          /\ \A piece \in {"P", "p"} : Cardinality(CellsOf(game.board, piece)) = 8

\* a generation has returned in which a black pawn stands on rank 4 beside a white pawn
C8_Witness ==
    /\ gen.pc = "done"
    /\ \E i \in 24 .. 31 : game.board[i] = BLACK_PAWN
    /\ \E i \in 24 .. 31 : game.board[i] = WHITE_PAWN

\* C9: generateStartingPosition places the white king in cells 0-7, the black king in
\* cells 56-63, the white pawns in cells 8-31, the black pawns in cells 24-55 and never on
\* the cell of a white pawn, the seven white pieces in cells 0-23 and the seven black
\* pieces in cells 40-63.
C9_Zones ==
    /\ \A i \in Cells :
          /\ game.board[i] = WHITE_KING => i \in 0 .. 7
          /\ game.board[i] = BLACK_KING => i \in 56 .. 63
          /\ game.board[i] = WHITE_PAWN => i \in 8 .. 31
          /\ game.board[i] = BLACK_PAWN => i \in 24 .. 55
          /\ game.board[i] \in {"Q", "R", "B", "N"} => i \in 0 .. 23
          /\ game.board[i] \in {"q", "r", "b", "n"} => i \in 40 .. 63
    /\ gen.pc \in {"blackPawns", "blackPieces", "done"} =>
          Cardinality(CellsOf(game.board, WHITE_PAWN)) = 8

\* a generation has returned with white pawns on rank 4 and black pieces on rank 6
C9_Witness ==
    /\ gen.pc = "done"
    /\ \E i \in 24 .. 31 : game.board[i] = WHITE_PAWN
    /\ \E i \in 40 .. 47 : game.board[i] \in {"q", "r", "b", "n"}

\* C10 (as claimed): after generateStartingPosition every black pawn stands on a cell
\* with index in 32..55.
C10_BlackPawnsRows5To7 ==
    gen.pc = "done" => \A i \in Cells : game.board[i] = BLACK_PAWN => i \in 32 .. 55

\* C11: for every reachable Game g, a fresh Game h after h.loadState(g.getState()) has the
\* same board, currentTurn, moveNumber, turnCount, gameOver, winner, lastMove,
\* moveHistory, whiteTime, blackTime, timeControl and enPassantTarget as g, and
\* h.getState() (no wall-clock time elapsing in between) equals the snapshot loaded.
C11_LoadStateRoundTrip ==
    LET got == getState(game, now)
        g == got.game
        h == loadState(NewGame(10), got.state)
    IN /\ h.board = g.board
       /\ h.currentTurn = g.currentTurn
       /\ h.moveNumber = g.moveNumber
       /\ h.turnCount = g.turnCount
       /\ h.gameOver = g.gameOver
       /\ h.winner = g.winner
       /\ h.lastMove = g.lastMove
       /\ h.moveHistory = g.moveHistory
       /\ h.whiteTime = g.whiteTime
       /\ h.blackTime = g.blackTime
       /\ h.timeControl = g.timeControl
       /\ h.enPassantTarget = g.enPassantTarget
       /\ getState(h, now).state = got.state

\* a game whose snapshot holds falsy and non-default values: a clock at 0 in a one-minute
\* game with the timer running, a move made and an en passant target set
C11_Witness ==
    /\ game.timeControl = 1
    /\ game.timerRunning
    /\ game.whiteTime = 0
    /\ game.enPassantTarget # NoCell
    /\ Len(game.moveHistory) > 0

\* the cells whose piece getValidMoves offers an en passant capture
EnPassantOffers(g) ==
    {fromIndex \in Cells :
        \E k \in 1 .. Len(getValidMoves(g, fromIndex)) :
            getValidMoves(g, fromIndex)[k].isEnPassant}

\* the move of record rec was a double pawn push
DoublePushed(rec) ==
    /\ rec.piece \in {WHITE_PAWN, BLACK_PAWN}
    /\ Abs(rec.to - rec.from) = 16

\* C12: after every successful makeMove, enPassantTarget is the cell skipped over when the
\* move was a double pawn push and null otherwise; consequently an en passant capture is
\* offered only on the half-move right after a double push and only to a pawn of the side
\* that did not push.
C12_EnPassantTargetAndOffer ==
    [][(result'.op = "makeMove" /\ result'.success) =>
          LET rec == result'.move
          IN /\ game'.enPassantTarget =
                   IF DoublePushed(rec) THEN (rec.from + rec.to) \div 2 ELSE NoCell
             /\ \A fromIndex \in EnPassantOffers(game') :
                   /\ DoublePushed(rec)
                   /\ toLowerCase(game'.board[fromIndex]) = "p"
                   /\ getPieceColor(game'.board[fromIndex]) # getPieceColor(rec.piece)
      ]_vars

\* a double push was just made and the other side's pawn is offered the en passant capture
C12_Witness ==
    /\ Moved
    /\ DoublePushed(result.move)
    /\ game.enPassantTarget = (result.move.from + result.move.to) \div 2
    /\ EnPassantOffers(game) # {}

\* C13: when makeMove executes a move flagged isEnPassant, the destination was empty
\* before the move, the piece removed is the opposing pawn that made the immediately
\* preceding double push (one rank behind the destination, seen from the mover), the
\* record's captured field holds that pawn with isEnPassant true, and no cell other than
\* from, to and the removed pawn's cell changes.
C13_EnPassantCapture ==
    [][(result'.op = "makeMove" /\ result'.success /\ result'.move.isEnPassant) =>
          LET rec == result'.move
              mover == getPieceColor(rec.piece)
              behind == rec.to + (IF mover = "white" THEN -8 ELSE 8)
              previous == game.moveHistory[Len(game.moveHistory)]
          IN /\ game.board[rec.to] = Null
             /\ Len(game.moveHistory) > 0
             /\ DoublePushed(previous)
             /\ previous.to = behind
             /\ getPieceColor(previous.piece) = Opponent(mover)
             /\ game.board[behind] = previous.piece
             /\ game'.board[behind] = Null
             /\ rec.captured = previous.piece
             /\ game'.board[rec.to] = rec.piece
             /\ game'.board[rec.from] = Null
             /\ \A c \in Cells \ {rec.from, rec.to, behind} : game'.board[c] = game.board[c]
      ]_vars

\* an en passant capture was made: the pawn that pushed is gone from its cell
C13_Witness ==
    /\ Moved
    /\ result.move.isEnPassant
    /\ result.move.captured \in {WHITE_PAWN, BLACK_PAWN}
    /\ game.board[game.moveHistory[Len(game.moveHistory) - 1].to] = Null

\* C14: whenever makeMove moves a white pawn onto row 7 or a black pawn onto row 0, the
\* destination holds a queen of the mover's colour after the move and the record's
\* promotion field is that queen; hence after a move no white pawn is on row 7 and no
\* black pawn on row 0.
C14_Promotion ==
    [][(result'.op = "makeMove" /\ result'.success) =>
          LET rec == result'.move
          IN /\ (rec.piece = WHITE_PAWN /\ getRow(rec.to) = 7) =>
                    (game'.board[rec.to] = WHITE_QUEEN /\ rec.promotion = WHITE_QUEEN)
             /\ (rec.piece = BLACK_PAWN /\ getRow(rec.to) = 0) =>
                    (game'.board[rec.to] = BLACK_QUEEN /\ rec.promotion = BLACK_QUEEN)
             /\ \A c \in Cells :
                    /\ getRow(c) = 7 => game'.board[c] # WHITE_PAWN
                    /\ getRow(c) = 0 => game'.board[c] # BLACK_PAWN
      ]_vars

\* both colours have promoted: a black pawn arrived on row 0 after a white one on row 7
C14_Witness ==
    /\ Moved
    /\ result.move.piece = BLACK_PAWN
    /\ getRow(result.move.to) = 0
    /\ game.board[result.move.to] = BLACK_QUEEN
    /\ \E k \in 1 .. Len(game.moveHistory) :
          /\ game.moveHistory[k].piece = WHITE_PAWN
          /\ game.moveHistory[k].promotion = WHITE_QUEEN

Colors == {"white", "black"}

\* a move list as the set of its moves, and whether it lists no move twice
MoveSet(moves) == {moves[k] : k \in 1 .. Len(moves)}

NoRepeat(moves) == Cardinality(MoveSet(moves)) = Len(moves)

\* the (row, column) steps of a knight and of a king
KnightJumps == {d \in (-2 .. 2) \X (-2 .. 2) : Abs(d[1]) * Abs(d[2]) = 2}

KingSteps == {d \in (-1 .. 1) \X (-1 .. 1) : d # <<0, 0>>}

\* the moves to the cells of the board that lie one of `steps` away from fromIndex and
\* hold no piece of `color`, a capture where the cell holds a piece
SteppedMoves(b, fromIndex, color, steps) ==
    LET onBoard == {d \in steps : /\ (fromIndex \div 8) + d[1] \in 0 .. 7
                                  /\ (fromIndex % 8) + d[2] \in 0 .. 7}
        reached == {fromIndex + 8 * d[1] + d[2] : d \in onBoard}
    IN {Move(c, b[c] # Null) :
           c \in {c \in reached : b[c] = Null \/ getPieceColor(b[c]) # color}}

\* C15: for every origin cell and every board, getKnightMoves and getKingMoves return
\* exactly the cells that differ from the origin by one of the 8 knight offsets / 8 king
\* steps, lie on the board and hold no piece of the moving colour, isCapture being true
\* exactly on an enemy piece; no cell is reached by wrapping across an edge (a knight on
\* d4 of an empty board has 8 moves, on a1 it has 2).
C15_KnightAndKingMoves ==
    /\ \A fromIndex \in Cells : \A color \in Colors :
          /\ MoveSet(getKnightMoves(gen.board, fromIndex, color))
                = SteppedMoves(gen.board, fromIndex, color, KnightJumps)
          /\ NoRepeat(getKnightMoves(gen.board, fromIndex, color))
          /\ MoveSet(getKingMoves(gen.board, fromIndex, color))
                = SteppedMoves(gen.board, fromIndex, color, KingSteps)
          /\ NoRepeat(getKingMoves(gen.board, fromIndex, color))
    /\ Len(getKnightMoves(EmptyBoard, 27, "white")) = 8
    /\ Len(getKnightMoves(EmptyBoard, 0, "white")) = 2

\* a finished placement with a knight on an edge column that has a move, and a knight or
\* a king that is given a capture and is kept off a cell by a piece of its own colour
C15_Witness ==
    /\ gen.pc = "done"
    /\ \E fromIndex \in Cells :
          /\ gen.board[fromIndex] \in {WHITE_KNIGHT, BLACK_KNIGHT}
          /\ getCol(fromIndex) \in {0, 7}
          /\ getKnightMoves(gen.board, fromIndex, getPieceColor(gen.board[fromIndex])) # << >>
    /\ \E fromIndex \in Cells :
          /\ gen.board[fromIndex] \in {WHITE_KNIGHT, BLACK_KNIGHT, WHITE_KING, BLACK_KING}
          /\ LET color == getPieceColor(gen.board[fromIndex])
                 moves == IF toLowerCase(gen.board[fromIndex]) = "n"
                          THEN getKnightMoves(gen.board, fromIndex, color)
                          ELSE getKingMoves(gen.board, fromIndex, color)
             IN /\ \E k \in 1 .. Len(moves) : moves[k].isCapture
                /\ Len(moves) < 8

\* the forward step, the double step and the diagonal captures of a pawn of `color` on
\* fromIndex, by the rules of movement
PawnSteps(b, fromIndex, color) ==
    LET direction == IF color = "white" THEN 1 ELSE -1
        homeRow == IF color = "white" THEN 1 ELSE 6
        ahead == fromIndex + 8 * direction
        twoAhead == fromIndex + 16 * direction
        single == ahead \in Cells /\ b[ahead] = Null
        double == (fromIndex \div 8) = homeRow /\ single /\ b[twoAhead] = Null
        diagonals == {c \in Cells : /\ (c \div 8) = (fromIndex \div 8) + direction
                                    /\ Abs((c % 8) - (fromIndex % 8)) = 1
                                    /\ b[c] # Null
                                    /\ getPieceColor(b[c]) # color}
    IN (IF single THEN {Move(ahead, FALSE)} ELSE {})
       \cup (IF double THEN {[Move(twoAhead, FALSE) EXCEPT !.isDoublePush = TRUE]} ELSE {})
       \cup {Move(c, TRUE) : c \in diagonals}

\* the en passant move of a pawn of `color` on fromIndex while the target is set
EnPassantStep(enPassantTarget, fromIndex, color) ==
    IF /\ enPassantTarget # NoCell
       /\ (fromIndex \div 8) = (IF color = "white" THEN 4 ELSE 3)
       /\ Abs((fromIndex % 8) - (enPassantTarget % 8)) = 1
    THEN {[Move(enPassantTarget, TRUE) EXCEPT !.isEnPassant = TRUE]}
    ELSE {}

\* C16 as stated: getPawnMoves returns the single forward step exactly when the cell ahead
\* is empty, the double step (isDoublePush) exactly when the pawn is on its home row and
\* both cells ahead are empty, and a diagonal move with isCapture true exactly for each
\* on-board cell one row forward and one column aside that holds an enemy piece; a pawn
\* with the forward cell occupied and no enemy on a forward diagonal has no moves.
C16_PawnMovesExact ==
    \A fromIndex \in Cells : \A color \in Colors :
        /\ MoveSet(getPawnMoves(game.board, game.enPassantTarget, fromIndex, color))
              = PawnSteps(game.board, fromIndex, color)
        /\ NoRepeat(getPawnMoves(game.board, game.enPassantTarget, fromIndex, color))

\* C16 amended: the same, and while enPassantTarget is set getPawnMoves also returns, for a
\* pawn on row 4 (white) / row 3 (black) in a column next to the target's, the move to
\* enPassantTarget flagged isCapture and isEnPassant, although that cell is empty.
C16_PawnMovesWithEnPassant ==
    \A fromIndex \in Cells : \A color \in Colors :
        /\ MoveSet(getPawnMoves(game.board, game.enPassantTarget, fromIndex, color))
              = PawnSteps(game.board, fromIndex, color)
                  \cup EnPassantStep(game.enPassantTarget, fromIndex, color)
        /\ NoRepeat(getPawnMoves(game.board, game.enPassantTarget, fromIndex, color))

\* the pawns on the board
Pawns(b) == {c \in Cells : b[c] \in {WHITE_PAWN, BLACK_PAWN}}

\* after a double push: a pawn that is given the en passant move, a pawn on its home row
\* that is given the double step, a pawn with a diagonal capture and a pawn without moves
C16_Witness ==
    /\ Moved
    /\ game.enPassantTarget # NoCell
    /\ \A flag \in {"isEnPassant", "isDoublePush", "isCapture"} :
          \E fromIndex \in Pawns(game.board) :
             \E m \in MoveSet(getPawnMoves(game.board, game.enPassantTarget, fromIndex,
                                            getPieceColor(game.board[fromIndex]))) :
                m[flag] /\ (flag = "isCapture" => ~m.isEnPassant)
    /\ \E fromIndex \in Pawns(game.board) :
          getPawnMoves(game.board, game.enPassantTarget, fromIndex,
                       getPieceColor(game.board[fromIndex])) = << >>

Sign(x) == IF x > 0 THEN 1 ELSE IF x < 0 THEN -1 ELSE 0

\* the cells strictly between i and sq, which lie on one row, column or diagonal, are empty
ClearBetween(b, i, sq) ==
    LET dr == (sq \div 8) - (i \div 8)
        dc == (sq % 8) - (i % 8)
    IN \A k \in 1 .. (Max(Abs(dr), Abs(dc)) - 1) :
          b[i + k * (8 * Sign(dr) + Sign(dc))] = Null

\* the piece on cell i of board b attacks cell sq, by the movement pattern of the piece
Reaches(b, i, sq) ==
    LET dr == (sq \div 8) - (i \div 8)
        dc == (sq % 8) - (i % 8)
        diagonal == Abs(dr) = Abs(dc)
        straight == dr = 0 \/ dc = 0
        pieceType == toLowerCase(b[i])
    IN /\ sq # i
       /\ CASE pieceType = "p" -> dr = (IF isWhitePiece(b[i]) THEN 1 ELSE -1) /\ Abs(dc) = 1
            [] pieceType = "n" -> Abs(dr) * Abs(dc) = 2
            [] pieceType = "k" -> Max(Abs(dr), Abs(dc)) = 1
            [] pieceType = "b" -> diagonal /\ ClearBetween(b, i, sq)
            [] pieceType = "r" -> straight /\ ClearBetween(b, i, sq)
            [] pieceType = "q" -> (diagonal \/ straight) /\ ClearBetween(b, i, sq)

\* `color` has a king on board b and a piece of the other colour attacks the king's cell
KingAttacked(b, color) ==
    LET kings == CellsOf(b, IF color = "white" THEN WHITE_KING ELSE BLACK_KING)
    IN /\ kings # {}
       /\ \E i \in Cells :
             /\ b[i] # Null
             /\ getPieceColor(b[i]) = Opponent(color)
             /\ \A sq \in kings : (\A other \in kings : sq <= other) => Reaches(b, i, sq)

\* C17: isInCheck(color) is true exactly when color has a king on the board and an
\* opposing piece attacks the king's cell, attacks following the movement patterns
\* whatever turnCount (the capture restriction never suppresses a check) and currentTurn
\* are; a pawn attacks exactly its two forward-diagonal on-board cells, occupied or not,
\* and never the cells of its forward pushes. (The second conjunct asks the same of
\* isSquareAttacked for every cell a king of the attacked colour could stand on.)
C17_CheckByMovementPatterns ==
    /\ \A color \in Colors : isInCheck(game.board, color) = KingAttacked(game.board, color)
    /\ \A byColor \in Colors :
          \A sq \in {c \in Cells : game.board[c] = Null
                                    \/ getPieceColor(game.board[c]) # byColor} :
             isSquareAttacked(game.board, sq, byColor)
               = \E i \in Cells : /\ game.board[i] # Null
                                   /\ getPieceColor(game.board[i]) = byColor
                                   /\ Reaches(game.board, i, sq)
    /\ \A fromIndex \in Cells : \A color \in Colors :
          getPawnAttacks(fromIndex, color)
            = {c \in Cells :
                 /\ (c \div 8) = (fromIndex \div 8) + (IF color = "white" THEN 1 ELSE -1)
                 /\ Abs((c % 8) - (fromIndex % 8)) = 1}

\* during the capture-free half-moves, after a move: a king in check from a pawn while
\* that pawn's capture of the king's cell is withheld from getValidMoves
C17_Witness ==
    /\ Moved
    /\ game.turnCount <= 3
    /\ \E color \in Colors :
          /\ isInCheck(game.board, color)
          /\ game.currentTurn = Opponent(color)
          /\ \E i \in Pawns(game.board) :
                /\ getPieceColor(game.board[i]) = Opponent(color)
                /\ findKing(game.board, color) \in getPawnAttacks(i, Opponent(color))
                /\ findKing(game.board, color) \notin Targets(getValidMoves(game, i))

\* the clock of `color` in game g
ClockOf(g, color) == IF color = "white" THEN g.whiteTime ELSE g.blackTime

\* the game is timed, its timer runs and lastTimestamp is set
ClockRuns(g) == g.timeControl # 0 /\ g.timerRunning /\ g.lastTimestamp # NoTime

\* the clock of `color` once the time from lastTimestamp to t is charged to the side to move
Charged(g, color, t) ==
    IF ClockRuns(g) /\ g.currentTurn = color
    THEN Max(0, ClockOf(g, color) - (t - g.lastTimestamp))
    ELSE ClockOf(g, color)

\* C18: updateTime deducts the time elapsed since lastTimestamp from the clock of the side
\* to move only, never below 0, leaves the other clock unchanged and sets lastTimestamp to
\* now; it changes nothing when timeControl is 0, the timer is not running or
\* lastTimestamp is unset.
C18_UpdateTime ==
    [][UpdateTime =>
          IF ClockRuns(game)
          THEN /\ ClockOf(game', game.currentTurn)
                    = Max(0, ClockOf(game, game.currentTurn) - (now - game.lastTimestamp))
               /\ ClockOf(game', game.currentTurn) >= 0
               /\ ClockOf(game', Opponent(game.currentTurn))
                    = ClockOf(game, Opponent(game.currentTurn))
               /\ game'.lastTimestamp = now
               /\ [game' EXCEPT !.whiteTime = 0, !.blackTime = 0, !.lastTimestamp = 0]
                    = [game EXCEPT !.whiteTime = 0, !.blackTime = 0, !.lastTimestamp = 0]
          ELSE game' = game
      ]_vars

\* more time has elapsed than white had left: the clock stands at 0, black's is untouched
C18_Witness ==
    /\ result.op = "loadState"
    /\ ClockRuns(game)
    /\ game.currentTurn = "white"
    /\ game.whiteTime = 0
    /\ game.blackTime = 60000
    /\ game.lastTimestamp = now

\* C19: on a successful makeMove in a timed game with the timer running, the time elapsed
\* since lastTimestamp is charged to the mover's clock (before the turn is flipped), the
\* opponent's clock is unchanged by the move, and lastTimestamp is reset, so that time
\* elapsing after the move is charged only to the new side to move.
C19_MoveChargesMover ==
    [][(/\ Len(game'.moveHistory) = Len(game.moveHistory) + 1
        /\ result'.op = "makeMove"
        /\ result'.success
        /\ ClockRuns(game)) =>
          LET mover == game.currentTurn
              later == updateTime(game', now + TickMs)
          IN /\ game'.currentTurn = Opponent(mover)
             /\ ClockOf(game', mover)
                  = Max(0, ClockOf(game, mover) - (now - game.lastTimestamp))
             /\ ClockOf(game', Opponent(mover)) = ClockOf(game, Opponent(mover))
             /\ game'.lastTimestamp = now
             /\ ClockOf(later, mover) = ClockOf(game', mover)
             /\ ClockOf(later, Opponent(mover))
                  = Max(0, ClockOf(game', Opponent(mover)) - TickMs)
      ]_vars

\* white has just moved with the timer running: white has been charged, black has not
C19_Witness ==
    /\ Moved
    /\ ClockRuns(game)
    /\ result.move.piece \in WhitePieces
    /\ game.currentTurn = "black"
    /\ game.whiteTime = 60000 - 2 * TickMs
    /\ game.blackTime = 60000
    /\ game.lastTimestamp = now

\* C20: in a timed game checkTimeout first applies updateTime and then returns a result
\* 'timeout' and sets gameOver exactly when a clock has reached 0, winner black when
\* whiteTime <= 0, otherwise winner white when blackTime <= 0; when both clocks are above
\* 0 it returns null and leaves gameOver and winner unchanged.
C20_CheckTimeout ==
    [][(CheckTimeout /\ game.timeControl # 0) =>
          LET whiteTime == Charged(game, "white", now)
              blackTime == Charged(game, "black", now)
          IN /\ game'.whiteTime = whiteTime
             /\ game'.blackTime = blackTime
             /\ ClockRuns(game) => game'.lastTimestamp = now
             /\ IF whiteTime <= 0
                THEN /\ result'.gameStatus.gameOver
                     /\ result'.gameStatus.result = "timeout"
                     /\ result'.gameStatus.winner = "black"
                     /\ game'.gameOver
                     /\ game'.winner = "black"
                ELSE IF blackTime <= 0
                THEN /\ result'.gameStatus.gameOver
                     /\ result'.gameStatus.result = "timeout"
                     /\ result'.gameStatus.winner = "white"
                     /\ game'.gameOver
                     /\ game'.winner = "white"
                ELSE /\ result'.gameStatus = NoStatus
                     /\ game'.gameOver = game.gameOver
                     /\ game'.winner = game.winner
      ]_vars

\* checkTimeout found black's clock run out while white's had time left
C20_Witness ==
    /\ result.op = "checkTimeout"
    /\ result.gameStatus.result = "timeout"
    /\ result.gameStatus.winner = "white"
    /\ game.gameOver
    /\ game.winner = "white"
    /\ game.blackTime = 0
    /\ game.whiteTime > 0
    /\ game.lastTimestamp = now

(* ------------------------------------------------------------------ *)
(* Untimed games, resignation, the move history                        *)
(* ------------------------------------------------------------------ *)

\* C21: in a game constructed with timeControl = 0, isUntimed() is true, the timer never
\* runs, no operation (startTimer, updateTime, makeMove, getState, getTimeRemaining, ...)
\* changes whiteTime or blackTime however far Date.now() has advanced, and checkTimeout
\* returns null and leaves gameOver as it was
C21_UntimedGame ==
    [][game.timeControl = 0 =>
          /\ isUntimed(game)
          /\ ~game'.timerRunning
          /\ game'.whiteTime = game.whiteTime
          /\ game'.blackTime = game.blackTime
          /\ CheckTimeout => /\ result'.gameStatus = NoStatus
                             /\ game'.gameOver = game.gameOver
                             /\ game'.winner = game.winner
      ]_vars

\* checkTimeout was called on an untimed game after a half-move, 50 seconds after the
\* game was constructed and the timer was asked to start
C21_Witness ==
    /\ game.timeControl = 0
    /\ result.op = "checkTimeout"
    /\ Len(game.moveHistory) = 1
    /\ now >= ClockStart + 2 * TickMs
    /\ ~game.gameOver
    /\ ~game.timerRunning

\* C22: resign(color) sets gameOver, makes the other colour the winner, stops the timer,
\* returns the result 'resignation' with that winner, and leaves the board, currentTurn,
\* the counters and moveHistory as they were
C22_Resign ==
    [][\A color \in Colors :
          (/\ game' = resign(game, color).game
           /\ result' = Call("resign", Returned(resign(game, color).status))
           /\ Resign)
          => /\ game'.gameOver
             /\ game'.winner = (IF color = "white" THEN "black" ELSE "white")
             /\ ~game'.timerRunning
             /\ result'.gameStatus.gameOver
             /\ result'.gameStatus.result = "resignation"
             /\ result'.gameStatus.winner = game'.winner
             /\ game'.board = game.board
             /\ game'.currentTurn = game.currentTurn
             /\ game'.moveNumber = game.moveNumber
             /\ game'.turnCount = game.turnCount
             /\ game'.moveHistory = game.moveHistory
      ]_vars

\* white resigned a timed game after a half-move, when it was black's turn
C22_Witness ==
    /\ result.op = "resign"
    /\ game.gameOver
    /\ game.winner = "black"
    /\ game.currentTurn = "black"
    /\ Len(game.moveHistory) = 1
    /\ game.timeControl # 0
    /\ game.lastTimestamp # NoTime
    /\ ~game.timerRunning

\* the record a successful makeMove(from, to) has to append to the history of game g
AppendedRecord(g, rec) ==
    /\ rec.from \in Cells
    /\ rec.to \in Cells
    /\ rec.piece = g.board[rec.from]
    /\ rec.piece # Null
    /\ rec.captured = (IF rec.isEnPassant
                       THEN g.board[rec.to + (IF isWhitePiece(rec.piece) THEN -8 ELSE 8)]
                       ELSE g.board[rec.to])
    /\ rec.moveNumber = g.moveNumber

LegalMoves(g) ==
    {<<i, t>> \in Cells \X Cells :
        /\ getPieceColor(g.board[i]) = g.currentTurn
        /\ t \in Targets(getValidMoves(g, i))}

\* C24: findBestMove returns null exactly when the side to move has no legal move;
\* otherwise, at every difficulty and for every outcome of Math.random(), it returns a
\* move whose `from` holds a piece of the side to move and whose `to` is among
\* getValidMoves(from), so that makeMove(from, to) called next on the same game succeeds
C24_BestMoveIsLegal ==
    result.op = "findBestMove" =>
       /\ (result.best = NoMove) <=> ~hasValidMoves(game, game.currentTurn)
       /\ result.best # NoMove =>
             /\ result.best.from \in Cells
             /\ getPieceColor(game.board[result.best.from]) = game.currentTurn
             /\ result.best.to \in Targets(getValidMoves(game, result.best.from))
             /\ makeMove(game, result.best.from, result.best.to, now).ret.success

\* the easy difficulty returned a random move without searching
C24_Witness ==
    /\ result.op = "findBestMove"
    /\ ai.difficulty = "easy"
    /\ ~result.searched
    /\ result.best # NoMove
    /\ game.currentTurn = "black"
    /\ Len(game.moveHistory) = 1

\* C25: findBestMove leaves the game as it found it: board, currentTurn, moveNumber,
\* turnCount, enPassantTarget, gameOver, winner, lastMove and moveHistory after the call
\* equal their values before it, and so does every other field, whether it returns a
\* move or null
C25_FindBestMoveRestoresGame ==
    [][(result'.op = "findBestMove" /\ result.op # "findBestMove") =>
          /\ game'.board = game.board
          /\ game'.currentTurn = game.currentTurn
          /\ game'.moveNumber = game.moveNumber
          /\ game'.turnCount = game.turnCount
          /\ game'.enPassantTarget = game.enPassantTarget
          /\ game'.gameOver = game.gameOver
          /\ game'.winner = game.winner
          /\ game'.lastMove = game.lastMove
          /\ game'.moveHistory = game.moveHistory
          /\ game' = game
      ]_vars

\* the hard difficulty searched four half-moves deep for black, captures among the moves
C25_Witness ==
    /\ result.op = "findBestMove"
    /\ ai.difficulty = "hard"
    /\ result.searched
    /\ \E k \in 1 .. Len(result.moves) : result.moves[k].isCapture
    /\ game.currentTurn = "black"
    /\ Len(game.moveHistory) = 1

\* the place of move m in the list getAllMoves generates for the side to move
GenerationRank(g, m) ==
    LET generated == getAllMoves(g, g.currentTurn).moves
    IN CHOOSE n \in 1 .. Len(generated) : generated[n] = m

\* the moves in captures-first order, moves of the same kind in generation order
CapturesFirstStable(g, moves) ==
    /\ {<<moves[k].from, moves[k].to>> : k \in 1 .. Len(moves)} = LegalMoves(g)
    /\ Cardinality(LegalMoves(g)) = Len(moves)
    /\ \A j, k \in 1 .. Len(moves) :
          j < k => /\ moves[k].isCapture => moves[j].isCapture
                   /\ moves[j].isCapture = moves[k].isCapture
                         => GenerationRank(g, moves[j]) < GenerationRank(g, moves[k])

\* the minimax score, at depth maxDepth - 1, of the position after move m
RootScore(a, g, m) ==
    minimax(a, makeTemporaryMove(g, m.from, m.to).game, a.maxDepth - 1, Score(-Infinity),
            Score(Infinity), g.currentTurn # "white", 0).score

\* C27: when findBestMove runs the search and does not deviate, the move it returns has
\* the maximal (white to move) or minimal (black to move) minimax score at depth
\* maxDepth - 1 among all legal root moves, and is the first move with that score in the
\* captures-first order that is otherwise the generation order
C27_BestScoreFirstInOrder ==
    (result.op = "findBestMove" /\ result.searched /\ ~result.deviated) =>
       LET moves == result.moves
           scores == result.scores
           white == game.currentTurn = "white"
       IN /\ CapturesFirstStable(game, moves)
          /\ Len(scores) = Len(moves)
          /\ ai.difficulty # "easy" =>
                \A k \in 1 .. Len(moves) : scores[k] = RootScore(ai, game, moves[k])
          /\ \E b \in 1 .. Len(moves) :
                /\ result.best = moves[b]
                /\ \A k \in 1 .. Len(moves) :
                      IF white THEN ~ScoreLess(scores[b], scores[k])
                      ELSE ~ScoreLess(scores[k], scores[b])
                /\ \A k \in 1 .. (b - 1) : scores[k] # scores[b]

\* the search found the best score at more than one move, and the order had put a
\* capture ahead of a move generated before it
C27_Witness ==
    /\ result.op = "findBestMove"
    /\ result.searched
    /\ ~result.deviated
    /\ \E j, k \in 1 .. Len(result.moves) :
          /\ j < k
          /\ result.best = result.moves[j]
          /\ result.scores[k] = result.scores[j]
    /\ \E j, k \in 1 .. Len(result.moves) :
          /\ j < k
          /\ result.moves[j].isCapture
          /\ GenerationRank(game, result.moves[k]) < GenerationRank(game, result.moves[j])

\* the number of the moves tried whose score is better for the mover than that of the
\* move returned
BetterScored(white, moves, scores, best) ==
    LET b == CHOOSE n \in 1 .. Len(moves) : moves[n] = best
    IN Cardinality({k \in 1 .. Len(moves) :
                       IF white THEN ScoreLess(scores[b], scores[k])
                       ELSE ScoreLess(scores[k], scores[b])})

\* C28: when the medium difficulty takes its deviation, the move returned is one of the
\* three root moves with the best search scores for the mover: fewer than three root
\* moves have a better score than it
C28_DeviationWithinTopThree ==
    (result.op = "findBestMove" /\ result.deviated) =>
       BetterScored(game.currentTurn = "white", result.moves, result.scores, result.best) < 3

\* the material values and piece-square bonuses of the pieces on cells[k], cells[k + 1],
\* ... of board b, each piece looked up in the ChessAI's tables as the piece it is
RECURSIVE MaterialOfPieces(_, _, _)
MaterialOfPieces(b, cells, k) ==
    IF k > Len(cells) THEN 0
    ELSE PieceValue(PIECE_GLYPHS[b[cells[k]]])
         + getPieceSquareValue(PIECE_GLYPHS[b[cells[k]]], cells[k],
                               isWhitePiece(b[cells[k]]))
         + MaterialOfPieces(b, cells, k + 1)

\* C26: for a game of the position engine that is not over, evaluatePosition is the
\* material sum of the pieces on the board (100 per pawn, 320 per knight, 330 per bishop,
\* 500 per rook, 900 per queen, 20000 per king, negated for black) plus the piece-square
\* bonus of each piece plus the mobility and check terms
C26_EvaluationIncludesMaterial ==
    (result.op \in {"loadState", "makeMove"} /\ ~game.gameOver) =>
       LET cells == OccupiedCells(game.board)
           counted == CountMobility(game, cells, 1, 0, 0)
       IN evaluatePosition(ChessAI("medium"), game, rng).score
             = Score(MaterialOfPieces(game.board, cells, 1)
                     + (counted.whiteMobility - counted.blackMobility) * 5
                     + (IF isInCheck(game.board, "black") THEN 50 ELSE 0)
                     - (IF isInCheck(game.board, "white") THEN 50 ELSE 0))

\* C29: for every legal move of the side to move, makeTemporaryMove produces the
\* position makeMove produces for the same move: the same board (a pawn reaching the
\* farthest rank replaced by a queen, the pawn passed en passant removed), the same
\* currentTurn, moveNumber and turnCount, and the same capture restriction
C29_TemporaryMoveMatchesMakeMove ==
    (result.op \in {"loadState", "makeMove"} /\ ~game.gameOver) =>
       \A m \in LegalMoves(game) :
          LET temporary == makeTemporaryMove(game, m[1], m[2]).game
              made == makeMove(game, m[1], m[2], now).game
          IN /\ temporary.board = made.board
             /\ temporary.currentTurn = made.currentTurn
             /\ temporary.moveNumber = made.moveNumber
             /\ temporary.turnCount = made.turnCount
             /\ areCapturesAllowed(temporary) = areCapturesAllowed(made)

\* the best of a non-empty set of scores: the greatest for the maximizing side, the
\* least for the minimizing side
BestOf(values, isMaximizing) ==
    CHOOSE v \in values :
       \A w \in values : IF isMaximizing THEN ~ScoreLess(v, w) ELSE ~ScoreLess(w, v)

\* minimax without pruning: every move of every node is searched, over the move
\* generator, terminal scoring and static evaluation of minimax
RECURSIVE Exhaustive(_, _, _, _)
Exhaustive(a, g, depth, isMaximizing) ==
    IF depth = 0 THEN evaluatePosition(a, g, 0).score
    ELSE LET color == IF isMaximizing THEN "white" ELSE "black"
             moves == getAllMoves(g, color).moves
         IN IF Len(moves) = 0 THEN NoMovesScore(a, g, color, depth, isMaximizing)
            ELSE BestOf({Exhaustive(a, makeTemporaryMove(g, moves[k].from,
                                                         moves[k].to).game,
                                    depth - 1, ~isMaximizing) :
                            k \in 1 .. Len(moves)}, isMaximizing)

\* the number of nodes of the tree minimax without pruning searches
RECURSIVE ExhaustiveNodes(_, _, _)
ExhaustiveNodes(g, depth, isMaximizing) ==
    IF depth = 0 THEN 1
    ELSE LET moves == getAllMoves(g, IF isMaximizing THEN "white" ELSE "black").moves
             below[k \in 0 .. Len(moves)] ==
                IF k = 0 THEN 1
                ELSE below[k - 1]
                     + ExhaustiveNodes(makeTemporaryMove(g, moves[k].from,
                                                         moves[k].to).game,
                                       depth - 1, ~isMaximizing)
         IN below[Len(moves)]

\* C30: at the medium and hard difficulties, whose evaluation draws no random value,
\* minimax with alpha-beta cutoffs called with the window -Infinity .. +Infinity for the
\* side to move returns the value of minimax without pruning, at every depth up to
\* maxDepth
C30_AlphaBetaIsExhaustive ==
    (result.op \in {"loadState", "makeMove"} /\ ai.difficulty \in {"medium", "hard"}) =>
       \A depth \in 0 .. ai.maxDepth :
          minimax(ai, game, depth, Score(-Infinity), Score(Infinity),
                  game.currentTurn = "white", rng).score
             = Exhaustive(ai, game, depth, game.currentTurn = "white")

\* the hard difficulty searched four half-moves deep and cutoffs spared it a part of the
\* tree
C30_Witness ==
    /\ result.op \in {"loadState", "makeMove"}
    /\ ai.difficulty = "hard"
    /\ ~game.gameOver
    /\ minimax(ai, game, ai.maxDepth, Score(-Infinity), Score(Infinity),
               game.currentTurn = "white", rng).evaluated
          < ExhaustiveNodes(game, ai.maxDepth, game.currentTurn = "white")

(* ------------------------------------------------------------------ *)
(* Counters, results and material over a whole game                    *)
(* ------------------------------------------------------------------ *)

\* C32: in every state reached from a new game by generateStartingPosition and makeMove
\* calls, successful or failed, turnCount is moveHistory.length + 1, currentTurn is white
\* exactly when turnCount is odd, moveNumber is floor((turnCount + 1) / 2), and lastMove
\* is null exactly when moveHistory is empty and otherwise holds the from and to of the
\* last record
C32_CountersFollowHistory ==
    LET n == Len(game.moveHistory)
    IN /\ game.turnCount = n + 1
       /\ (game.currentTurn = "white") <=> (game.turnCount % 2 = 1)
       /\ game.currentTurn \in {"white", "black"}
       /\ game.moveNumber = (game.turnCount + 1) \div 2
       /\ (game.lastMove = NoLastMove) <=> (n = 0)
       /\ n > 0 => game.lastMove = [from |-> game.moveHistory[n].from,
                                    to |-> game.moveHistory[n].to]

\* white and black have moved: the second full move begins
C32_Witness ==
    /\ gen.pc = "done"
    /\ Len(game.moveHistory) = 2
    /\ Moved
    /\ game.moveNumber = 2
    /\ game.currentTurn = "white"

\* C33: once gameOver is true it stays true and winner keeps its value under every
\* later resign, updateTime, checkTimeout, getState and getTimeRemaining call
C33_ResultIsStable ==
    [][(game.gameOver
        /\ (Resign \/ UpdateTime \/ CheckTimeout \/ GetState \/ GetTimeRemaining))
          => (game'.gameOver /\ game'.winner = game.winner)]_vars

\* C34: once a game has ended by a move (left-in-check, checkmate or stalemate), neither
\* clock changes under a later updateTime, getState, getTimeRemaining or checkTimeout
\* call, however much wall-clock time has elapsed
C34_ClocksStopAtGameEnd ==
    [][(Moved /\ result.gameStatus.gameOver /\ game.gameOver
        /\ (UpdateTime \/ GetState \/ GetTimeRemaining \/ CheckTimeout))
          => (game'.whiteTime = game.whiteTime /\ game'.blackTime = game.blackTime)]_vars

\* the number of pieces of a colour on board b
PiecesOf(b, color) == Cardinality({i \in Cells : getPieceColor(b[i]) = color})

\* no destination getValidMoves returns, for any cell, holds a piece of the colour of
\* the piece that moves
NoOwnDestination(g) ==
    \A fromIndex \in Cells :
       \A toIndex \in Targets(getValidMoves(g, fromIndex)) :
          g.board[toIndex] = Null
          \/ getPieceColor(g.board[toIndex]) # getPieceColor(g.board[fromIndex])

\* C35: a successful makeMove leaves the number of the mover's pieces unchanged, lowers
\* the number of the opponent's pieces by one exactly when the record's captured field is
\* not null, the captured piece being of the opponent's colour, and no destination
\* returned by getValidMoves is a cell holding a piece of the moving colour
C35_MaterialConserved ==
    /\ [](result.op \in {"loadState", "makeMove"} => NoOwnDestination(game))
    /\ [][(result'.op = "makeMove" /\ result'.success /\ MaterialMove) =>
             LET mover == game.currentTurn
                 captured == result'.move.captured
             IN /\ PiecesOf(game'.board, mover) = PiecesOf(game.board, mover)
                /\ PiecesOf(game'.board, Opponent(mover))
                      = PiecesOf(game.board, Opponent(mover))
                        - (IF captured # Null THEN 1 ELSE 0)
                /\ captured # Null => getPieceColor(captured) = Opponent(mover)
         ]_vars

\* a pawn has just captured en passant: the cell it moved to was empty and the record
\* names the pawn it removed
C35_Witness ==
    /\ Moved
    /\ result.move.isEnPassant
    /\ result.move.captured = WHITE_PAWN
    /\ PiecesOf(game.board, "white") = 5
    /\ PiecesOf(game.board, "black") = 6

(* ------------------------------------------------------------------ *)
(* State shared through snapshots                                       *)
(* ------------------------------------------------------------------ *)

\* C36: a move made on one game changes neither the board nor the moveHistory seen
\* through the snapshot or through any other game: moves on g leave s unchanged, and
\* moves on a game that loaded s leave s, g and the other game that loaded s unchanged
C36_SnapshotsShareNothing ==
    [][\A name \in ShareGames :
          (heap.objects[name] # NoObject /\ ShareMoveOf(name))
          => \A other \in ShareNames \ {name} :
                heap.objects[other] # NoObject
                => Contents(heap', other) = Contents(heap, other)]_vars

(* ------------------------------------------------------------------ *)
(* The page playing against the AI                                      *)
(* ------------------------------------------------------------------ *)

\* C31: the time the AI spends thinking is not taken from black's clock: after the move
\* makeAIMove plays on the game it searched, blackTime is what it was when the search began
C31_ThinkingTimeNotDeducted ==
    [][\A p \in page.pending :
          (MakeAIMoveResumeOf(p) /\ IssuesMakeMove(p) /\ page.game = p.searched
             /\ result'.success)
          => page'.games[p.searched].blackTime = p.blackTime]_vars

\* C40: the makeMove a resumed makeAIMove issues goes to the game the move was searched
\* on, and that game has black to move
C40_AIMoveOnSearchedGame ==
    [][\A p \in page.pending :
          (MakeAIMoveResumeOf(p) /\ IssuesMakeMove(p))
          => (page.game = p.searched /\ PageGame(page).currentTurn = "black")]_vars

(* ------------------------------------------------------------------ *)
(* The server: seats, results and disconnections                        *)
(* ------------------------------------------------------------------ *)

\* the socket sitting on the side `color` of the game
Seat(color) == IF color = "white" THEN server.gameData.white ELSE server.gameData.black

\* C37: a 'makeMove' or a 'resign' from a socket that is neither gameData.white nor
\* gameData.black changes neither the position, nor the turn, nor the winner, nor the
\* state of the game
C37_OutsidersChangeNothing ==
    [][\A socket \in server.connected :
          (socket \notin {server.gameData.white, server.gameData.black}
             /\ (MakeMoveFrom(socket) \/ ResignEvent(socket)))
          => /\ server'.gameData.game.board = server.gameData.game.board
             /\ server'.gameData.game.currentTurn = server.gameData.game.currentTurn
             /\ server'.gameData.game.winner = server.gameData.game.winner
             /\ server'.gameData.state = server.gameData.state]_vars

\* C38: a finished game between two registered players had processGameResult called
\* exactly once
C38_ResultProcessedOnce ==
    (server.gameData.state = "finished"
       /\ {server.gameData.white, server.gameData.black} \subseteq server.playerInfo)
    => Len(server.results) = 1

\* a side of a game that is not finished is held by a socket that has disconnected
SeatAbandoned(color) ==
    server.gameData.state \in {"playing", "paused"} /\ Seat(color) \notin server.connected

====
